---- MODULE Spec2Model ----
(***************************************************************************)
(* A model of the Open Context Protocol Python library (ocp-python):       *)
(*   - the context header codec (ocp_agent/headers.py, context.py),        *)
(*   - OpenAPI schema discovery and its cache (ocp/schema_discovery.py),   *)
(*   - the agent's tool invocation (ocp_agent/agent.py).                   *)
(*                                                                         *)
(* Representation.  Header names and context ids are tuples of one-letter  *)
(* strings, so that str.lower(), prefixes and the id pattern are computed  *)
(* letter by letter.  Other text is a TLA+ string; Python's None in an     *)
(* Optional[str] field is the string None.  A Python dict whose insertion  *)
(* order matters (a header map) is a sequence of [k, v] items with         *)
(* distinct keys.  A str or bytes value produced by an encoder is a        *)
(* tagged record naming the encoder and its argument; each decoder         *)
(* accepts the values of its own encoder and fails, with the exception     *)
(* the Python library raises, on every other value.                        *)
(***************************************************************************)
EXTENDS Integers, Sequences, FiniteSets, TLC

VARIABLES
    ctx,            \* the agent's AgentContext
    now,            \* the clock read by datetime.now()
    wire,           \* the header map in flight
    origin,         \* where the header map in flight comes from
    result,         \* what the last codec operation returned
    cached_specs,   \* OCPSchemaDiscovery.cached_specs
    yaml_installed, \* whether "import yaml" succeeds in this process
    discovered,     \* per URL, the APISpec discover_api returned since the
                    \* cache was last cleared
    call,           \* the last discover_api call and its outcome
    known_apis,     \* OCPAgent.known_apis
    sent,           \* the requests the agent's HTTP session has received
    invoked,        \* the last call of an agent method and its outcome
    changes,        \* every string passed to add_recent_change so far
    forked,         \* a context and its clone(), with the objects they hold
    files,          \* the files of the OCPStorage directory
    threads         \* the discover_api calls in progress, one per thread

codecVars == <<ctx, now, wire, origin, result>>
discoveryVars == <<cached_specs, yaml_installed, discovered, call>>
agentVars == <<known_apis, sent, invoked>>
sideVars == <<forked, files, threads>>
vars == <<codecVars, discoveryVars, agentVars, changes, sideVars>>

(***************************************************************************)
(* Bounds of the model.                                                    *)
(***************************************************************************)
MaxClock == 2

\* the calls of agent methods in a behaviour
MaxSteps == 3
MaxChanges == 11

(***************************************************************************)
(* Text.                                                                   *)
(***************************************************************************)
None == "<None>"

\* the lower-case letter of each upper-case letter, and the other way round
LowerLetters ==
    LET upper == <<"A","B","C","D","E","F","G","H","I","J","K","L","M",
                   "N","O","P","Q","R","S","T","U","V","W","X","Y","Z">>
        lower == <<"a","b","c","d","e","f","g","h","i","j","k","l","m",
                   "n","o","p","q","r","s","t","u","v","w","x","y","z">>
    IN [c \in {upper[i] : i \in 1..26} |->
           lower[CHOOSE i \in 1..26 : upper[i] = c]]

UpperLetters ==
    [c \in {LowerLetters[u] : u \in DOMAIN LowerLetters} |->
        CHOOSE u \in DOMAIN LowerLetters : LowerLetters[u] = c]

\* str.lower() and str.upper()
Lower(s) ==
    [i \in 1..Len(s) |->
        IF s[i] \in DOMAIN LowerLetters THEN LowerLetters[s[i]] ELSE s[i]]

Upper(s) ==
    [i \in 1..Len(s) |->
        IF s[i] \in DOMAIN UpperLetters THEN UpperLetters[s[i]] ELSE s[i]]

\* str.startswith(p)
StartsWith(s, p) == Len(s) >= Len(p) /\ SubSeq(s, 1, Len(p)) = p

RECURSIVE SeqSum(_)
SeqSum(s) == IF s = <<>> THEN 0 ELSE Head(s) + SeqSum(Tail(s))

(***************************************************************************)
(* OCP header names (headers.py, lines 16-26).                             *)
(***************************************************************************)
OCP_CONTEXT_ID == <<"O","C","P","-","C","o","n","t","e","x","t","-","I","D">>
OCP_SESSION    == <<"O","C","P","-","S","e","s","s","i","o","n">>
OCP_AGENT_GOAL == <<"O","C","P","-","A","g","e","n","t","-","G","o","a","l">>
OCP_AGENT_TYPE == <<"O","C","P","-","A","g","e","n","t","-","T","y","p","e">>
OCP_USER       == <<"O","C","P","-","U","s","e","r">>
OCP_WORKSPACE  == <<"O","C","P","-","W","o","r","k","s","p","a","c","e">>
OCP_VERSION    == <<"O","C","P","-","V","e","r","s","i","o","n">>
OCP_SPEC_VERSION == "1.0"

(***************************************************************************)
(* Python dicts with insertion order: sequences of [k, v] items.           *)
(***************************************************************************)
DictKeys(d) == {d[i].k : i \in DOMAIN d}
DictHas(d, key) == \E i \in DOMAIN d : d[i].k = key
DictGet(d, key) == d[CHOOSE i \in DOMAIN d : d[i].k = key].v

\* d[key] = val: an existing key keeps its place, a new one goes last
DictSet(d, key, val) ==
    IF DictHas(d, key)
    THEN [d EXCEPT ![CHOOSE i \in DOMAIN d : d[i].k = key] = [k |-> key, v |-> val]]
    ELSE Append(d, [k |-> key, v |-> val])

\* d.update(e)
RECURSIVE DictUpdate(_, _)
DictUpdate(d, e) ==
    IF e = <<>> THEN d
    ELSE DictUpdate(DictSet(d, Head(e).k, Head(e).v), Tail(e))

\* {k.lower(): v for k, v in headers.items()}
RECURSIVE NormalizeInto(_, _)
NormalizeInto(acc, d) ==
    IF d = <<>> THEN acc
    ELSE NormalizeInto(DictSet(acc, Lower(Head(d).k), Head(d).v), Tail(d))

NormalizeHeaders(d) == NormalizeInto(<<>>, d)

(***************************************************************************)
(* Outcomes of a call: a returned value or a raised exception.             *)
(***************************************************************************)
NoVal == [k |-> "none"]
Ok(v) == [ok |-> TRUE, val |-> v, exc |-> ""]
Raise(e) == [ok |-> FALSE, val |-> NoVal, exc |-> e]

(***************************************************************************)
(* str and bytes values, by the encoder that made them.                    *)
(***************************************************************************)
Lit(s) == [k |-> "lit", s |-> s]                 \* a literal ASCII text
JsonText(v) == [k |-> "json", v |-> v]           \* json.dumps(v, separators=(',', ':'))
Utf8(t) == [k |-> "utf8", of |-> t]              \* t.encode('utf-8')
NonUtf8Bytes == [k |-> "nonutf8"]                \* bytes that are no UTF-8 text
EmptyBytes == [k |-> "empty"]                    \* b""
Gz(b, defect) == [k |-> "gz", of |-> b, defect |-> defect]   \* a gzip member
B64(b) == [k |-> "b64", of |-> b]                \* base64.b64encode(b).decode('ascii')
GzipPrefixed(t) == [k |-> "gzip:", of |-> t]     \* "gzip:" + t

\* str.encode('ascii')
AsciiEncode(t) ==
    IF t.k = "nonascii" THEN Raise("UnicodeEncodeError") ELSE Ok(t)

\* base64.b64decode (validate=False): letters outside the alphabet are dropped,
\* what is left must be padded.  The literal texts of the model are not.
B64Decode(t) ==
    CASE t.k = "b64" -> Ok(t.of)
      [] t.k = "lit" -> IF Len(t.s) = 0 THEN Ok(EmptyBytes) ELSE Raise("binascii.Error")
      [] t.k = "gzip:" -> Ok(NonUtf8Bytes)
      [] OTHER -> Raise("binascii.Error")

\* gzip.compress and gzip.decompress
GzipCompress(b) == Gz(b, "none")

GzipDecompress(b) ==
    CASE b.k = "gz" /\ b.defect = "none" -> Ok(b.of)
      [] b.k = "gz" /\ b.defect = "truncated" -> Raise("EOFError")
      [] b.k = "gz" /\ b.defect = "corrupt" -> Raise("zlib.error")
      [] b.k = "gz" /\ b.defect = "badcrc" -> Raise("BadGzipFile")
      [] b.k = "empty" -> Ok(EmptyBytes)
      [] OTHER -> Raise("BadGzipFile")

\* bytes.decode('utf-8')
Utf8Decode(b) ==
    CASE b.k = "utf8" -> Ok(b.of)
      [] b.k = "empty" -> Ok(Lit(""))
      [] OTHER -> Raise("UnicodeDecodeError")

\* json.loads
JsonLoads(t) ==
    IF t.k = "json" THEN Ok(t.v) ELSE Raise("JSONDecodeError")

(***************************************************************************)
(* JSON values: an object (its members a record), or something else.       *)
(***************************************************************************)
JDict(d) == [jt |-> "dict", d |-> d]
JList == [jt |-> "list"]
JNull == [jt |-> "null"]

(***************************************************************************)
(* datetime: a record [t |-> tick]; isoformat() gives a string.            *)
(***************************************************************************)
DateTime(t) == [t |-> t]
IsoFormat(dt) ==
    "2024-01-01T00:00:" \o (IF dt.t < 10 THEN "0" ELSE "") \o ToString(dt.t)
                        \o "+00:00"
IsoZulu(dt) ==
    "2024-01-01T00:00:" \o (IF dt.t < 10 THEN "0" ELSE "") \o ToString(dt.t)
                        \o "Z"
Ticks == 0..9

\* s.replace("Z", "+00:00")
ReplaceZ(s) ==
    IF \E n \in Ticks : s = IsoZulu(DateTime(n))
    THEN IsoFormat(DateTime(CHOOSE n \in Ticks : s = IsoZulu(DateTime(n))))
    ELSE s

\* datetime.fromisoformat
FromIsoFormat(s) ==
    IF \E n \in Ticks : s = IsoFormat(DateTime(n))
    THEN Ok(DateTime(CHOOSE n \in Ticks : s = IsoFormat(DateTime(n))))
    ELSE Raise("ValueError")


(***************************************************************************)
(* AgentContext (context.py).                                              *)
(***************************************************************************)
FieldNames ==
    {"context_id", "agent_type", "user", "workspace", "current_file",
     "session", "history", "current_goal", "context_summary",
     "error_context", "recent_changes", "api_specs", "created_at",
     "last_updated"}


EmptyDict == <<>>

\* __post_init__: a session that is empty is filled in
PostInit(c) ==
    IF DOMAIN c.session = {}
    THEN [c EXCEPT !.session =
            [start_time |-> IsoFormat(c.created_at),
             interaction_count |-> 0,
             agent_type |-> c.agent_type]]
    ELSE c

\* AgentContext(**d): the fields of d, the dataclass defaults for the rest
Construct(d, fresh, clock) ==
    LET F(name, default) == IF name \in DOMAIN d THEN d[name] ELSE default
    IN PostInit(
        [context_id |-> F("context_id", fresh),
         agent_type |-> F("agent_type", "generic_agent"),
         user |-> F("user", None),
         workspace |-> F("workspace", None),
         current_file |-> F("current_file", None),
         session |-> F("session", EmptyDict),
         history |-> F("history", <<>>),
         current_goal |-> F("current_goal", None),
         context_summary |-> F("context_summary", None),
         error_context |-> F("error_context", None),
         recent_changes |-> F("recent_changes", <<>>),
         api_specs |-> F("api_specs", EmptyDict),
         created_at |-> F("created_at", DateTime(clock)),
         last_updated |-> F("last_updated", DateTime(clock))])

\* bool(s) of an Optional[str]
Truthy(s) == s # None /\ s # ""

\* session["interaction_count"] = session.get("interaction_count", 0) + 1
BumpInteractionCount(s) ==
    [key \in DOMAIN s \cup {"interaction_count"} |->
        IF key = "interaction_count"
        THEN (IF key \in DOMAIN s THEN s[key] ELSE 0) + 1
        ELSE s[key]]

update_goal(c, goal, summary, clock) ==
    [c EXCEPT !.current_goal = goal,
              !.context_summary = IF Truthy(summary) THEN summary ELSE @,
              !.last_updated = DateTime(clock),
              !.session = BumpInteractionCount(@)]

add_interaction(c, action, api_endpoint, res, metadata, clock) ==
    [c EXCEPT !.history = Append(@,
                  [timestamp |-> IsoFormat(DateTime(clock)),
                   action |-> action,
                   api_endpoint |-> api_endpoint,
                   result |-> res,
                   metadata |-> metadata]),
              !.last_updated = DateTime(clock)]

set_error_context(c, error, file_path, clock) ==
    [c EXCEPT !.error_context = error,
              !.current_file = IF Truthy(file_path) THEN file_path ELSE @,
              !.last_updated = DateTime(clock)]

\* len(self.recent_changes) > 10, self.recent_changes[-10:]
RecentChangesKept == 10

\* the slip of keeping the first ten changes
add_recent_change_keep_oldest(c, change, clock) ==
    LET appended == Append(c.recent_changes, change)
    IN [c EXCEPT !.recent_changes =
                     IF Len(appended) > RecentChangesKept
                     THEN SubSeq(appended, 1, RecentChangesKept)
                     ELSE appended,
                 !.last_updated = DateTime(clock)]

\* lines 94-100
add_recent_change(c, change, clock) ==
    LET appended == Append(c.recent_changes, change)
    IN [c EXCEPT !.recent_changes =
                     IF Len(appended) > RecentChangesKept
                     THEN SubSeq(appended,
                                 Len(appended) - RecentChangesKept + 1,
                                 Len(appended))
                     ELSE appended,
                 !.last_updated = DateTime(clock)]

\* to_dict: asdict(self) with the two datetimes as ISO strings
to_dict(c) ==
    JDict([c EXCEPT !.created_at = IsoFormat(c.created_at),
                    !.last_updated = IsoFormat(c.last_updated)])

\* from_dict: ISO strings back to datetimes, then cls(**data)
from_dict(data, fresh, clock) ==
    IF data.jt # "dict" THEN Raise("TypeError")
    ELSE
      LET d == data.d
          created == IF "created_at" \in DOMAIN d
                     THEN FromIsoFormat(ReplaceZ(d.created_at))
                     ELSE Ok(DateTime(clock))
          updated == IF "last_updated" \in DOMAIN d
                     THEN FromIsoFormat(ReplaceZ(d.last_updated))
                     ELSE Ok(DateTime(clock))
      IN IF ~created.ok THEN created
         ELSE IF ~updated.ok THEN updated
         ELSE IF ~(DOMAIN d \subseteq FieldNames) THEN Raise("TypeError")
         ELSE Ok(Construct(
                [key \in DOMAIN d |->
                    CASE key = "created_at" -> created.val
                      [] key = "last_updated" -> updated.val
                      [] OTHER -> d[key]],
                fresh, clock))

(***************************************************************************)
(* len(json.dumps(context.to_dict(), separators=(',', ':'))).              *)
(* The texts of the model hold no letter that JSON escapes.                *)
(***************************************************************************)
Quoted(s) == Len(s) + 2
OptQuoted(s) == IF s = None THEN 4 ELSE Quoted(s)

\* the length of a JSON list or object from the lengths of its members
Bracketed(lens) ==
    2 + SeqSum(lens) + (IF Len(lens) > 0 THEN Len(lens) - 1 ELSE 0)

Member(key, len) == Quoted(key) + 1 + len

RECURSIVE SetToSeq(_)
SetToSeq(S) ==
    IF S = {} THEN <<>>
    ELSE LET x == CHOOSE y \in S : TRUE IN <<x>> \o SetToSeq(S \ {x})

\* an object whose values are all strings
StrDictLen(d) ==
    LET keys == SetToSeq(DOMAIN d)
    IN Bracketed([i \in DOMAIN keys |-> Member(keys[i], Quoted(d[keys[i]]))])

SessionLen(s) ==
    LET keys == SetToSeq(DOMAIN s)
    IN Bracketed([i \in DOMAIN keys |->
          Member(keys[i], IF keys[i] = "interaction_count"
                          THEN Len(ToString(s[keys[i]]))
                          ELSE Quoted(s[keys[i]]))])

InteractionLen(h) ==
    Bracketed(<<Member("timestamp", Quoted(h.timestamp)),
                Member("action", Quoted(h.action)),
                Member("api_endpoint", OptQuoted(h.api_endpoint)),
                Member("result", OptQuoted(h.result)),
                Member("metadata", StrDictLen(h.metadata))>>)

JsonLen(data) ==
    LET d == data.d
    IN Bracketed(<<
        Member("context_id", Quoted(d.context_id)),
        Member("agent_type", Quoted(d.agent_type)),
        Member("user", OptQuoted(d.user)),
        Member("workspace", OptQuoted(d.workspace)),
        Member("current_file", OptQuoted(d.current_file)),
        Member("session", SessionLen(d.session)),
        Member("history",
               Bracketed([i \in DOMAIN d.history |-> InteractionLen(d.history[i])])),
        Member("current_goal", OptQuoted(d.current_goal)),
        Member("context_summary", OptQuoted(d.context_summary)),
        Member("error_context", OptQuoted(d.error_context)),
        Member("recent_changes",
               Bracketed([i \in DOMAIN d.recent_changes |->
                            Quoted(d.recent_changes[i])])),
        Member("api_specs", StrDictLen(d.api_specs)),
        Member("created_at", Quoted(d.created_at)),
        Member("last_updated", Quoted(d.last_updated))>>)


(***************************************************************************)
(* OCPHeaders (headers.py).                                                *)
(***************************************************************************)
CompressThreshold == 1000

Item(key, val) == [k |-> key, v |-> val]

\* len(session_json)
TextLen(t) == JsonLen(t.v)

\* the slip "at least the threshold" in place of "more than the threshold"
EncodeSessionAtLeast(c, compress) ==
    LET session_json == JsonText(to_dict(c))
    IN IF compress /\ TextLen(session_json) >= CompressThreshold
       THEN GzipPrefixed(B64(GzipCompress(Utf8(session_json))))
       ELSE B64(Utf8(session_json))

\* lines 63-75: the OCP-Session value
EncodeSession(c, compress) ==
    LET session_data == to_dict(c)
        session_json == JsonText(session_data)
    IN IF compress /\ TextLen(session_json) > CompressThreshold
       THEN GzipPrefixed(B64(GzipCompress(Utf8(session_json))))
       ELSE B64(Utf8(session_json))

\* the slip of sending the goal and workspace headers whenever the field is
\* not None
encode_context_unless_none(c, compress) ==
    LET h0 == <<Item(OCP_CONTEXT_ID, Lit(c.context_id)),
                Item(OCP_AGENT_TYPE, Lit(c.agent_type)),
                Item(OCP_VERSION, Lit(OCP_SPEC_VERSION))>>
        h1 == IF c.current_goal # None
              THEN DictSet(h0, OCP_AGENT_GOAL, Lit(c.current_goal))
              ELSE h0
        h2 == IF c.workspace # None
              THEN DictSet(h1, OCP_WORKSPACE, Lit(c.workspace))
              ELSE h1
    IN DictSet(h2, OCP_SESSION, EncodeSession(c, compress))

\* lines 39-77
encode_context(c, compress) ==
    LET h0 == <<Item(OCP_CONTEXT_ID, Lit(c.context_id)),
                Item(OCP_AGENT_TYPE, Lit(c.agent_type)),
                Item(OCP_VERSION, Lit(OCP_SPEC_VERSION))>>
        h1 == IF Truthy(c.current_goal)
              THEN DictSet(h0, OCP_AGENT_GOAL, Lit(c.current_goal))
              ELSE h0
        h2 == IF Truthy(c.workspace)
              THEN DictSet(h1, OCP_WORKSPACE, Lit(c.workspace))
              ELSE h1
    IN DictSet(h2, OCP_SESSION, EncodeSession(c, compress))

\* what decode_context hands back
NoCtx == [none |-> TRUE]
Returned(c) == [kind |-> "ctx", ctx |-> c, exc |-> ""]
Absent == [kind |-> "none", ctx |-> NoCtx, exc |-> ""]

\* the exceptions of the except clause, line 114
CaughtByDecode ==
    {"JSONDecodeError", "binascii.Error", "BadGzipFile", "UnicodeDecodeError"}

\* not value: the header is missing or its value is the empty string
EmptyHeader(h, key) ==
    \/ ~DictHas(h, key)
    \/ (DictGet(h, key).k = "lit" /\ Len(DictGet(h, key).s) = 0)

\* the slip of a decoder without the gzip branch
DecodeSessionPlainOnly(session_data) ==
    LET encoded == AsciiEncode(session_data)
    IN IF ~encoded.ok THEN encoded
       ELSE LET decoded == B64Decode(encoded.val)
            IN IF ~decoded.ok THEN decoded
               ELSE LET session_json == Utf8Decode(decoded.val)
                    IN IF ~session_json.ok THEN session_json
                       ELSE JsonLoads(session_json.val)

\* lines 101-111: from the session value to the parsed JSON
DecodeSession(session_data) ==
    LET gz == session_data.k = "gzip:"
        encoded == AsciiEncode(IF gz THEN session_data.of ELSE session_data)
    IN IF ~encoded.ok THEN encoded
       ELSE LET decoded == B64Decode(encoded.val)
            IN IF ~decoded.ok THEN decoded
               ELSE LET raw == IF gz THEN GzipDecompress(decoded.val) ELSE decoded
                    IN IF ~raw.ok THEN raw
                       ELSE LET session_json == Utf8Decode(raw.val)
                            IN IF ~session_json.ok THEN session_json
                               ELSE JsonLoads(session_json.val)

decode_context(headers, fresh, clock) ==
    LET normalized_headers == NormalizeHeaders(headers)
    IN IF \/ EmptyHeader(normalized_headers, Lower(OCP_CONTEXT_ID))
          \/ EmptyHeader(normalized_headers, Lower(OCP_SESSION))
       THEN Absent
       ELSE LET context_data ==
                    DecodeSession(DictGet(normalized_headers, Lower(OCP_SESSION)))
                made == IF context_data.ok
                        THEN from_dict(context_data.val, fresh, clock)
                        ELSE context_data
            IN IF made.ok THEN Returned(made.val)
               ELSE IF made.exc \in CaughtByDecode THEN Absent
               ELSE [kind |-> "raise", ctx |-> NoCtx, exc |-> made.exc]

\* lines 117-137: a bool, or what decode_context raises
validate_headers(headers, fresh, clock) ==
    LET normalized_headers == NormalizeHeaders(headers)
        after(context) ==
            IF context.kind = "raise" THEN Raise(context.exc)
            ELSE Ok(context.kind # "none")
    IN IF ~(/\ DictHas(normalized_headers, Lower(OCP_CONTEXT_ID))
            /\ DictHas(normalized_headers, Lower(OCP_SESSION)))
       THEN Ok(FALSE)
       ELSE after(decode_context(headers, fresh, clock))

\* the slip of updating the caller's map in place, the base values winning
merge_headers_in_place(base_headers, ocp_headers) ==
    [ret |-> DictUpdate(ocp_headers, base_headers),
     base |-> DictUpdate(ocp_headers, base_headers)]

\* merged = base_headers.copy(); merged.update(ocp_headers).
\* ret is the map returned, base the caller's map after the call.
merge_headers(base_headers, ocp_headers) ==
    [ret |-> DictUpdate(base_headers, ocp_headers), base |-> base_headers]

\* lines 189-196
ocp_header_names ==
    {Lower(OCP_CONTEXT_ID), Lower(OCP_SESSION), Lower(OCP_AGENT_GOAL),
     Lower(OCP_AGENT_TYPE), Lower(OCP_WORKSPACE), Lower(OCP_VERSION)}

\* ret is the map returned, arg the caller's map after the call
strip_ocp_headers(headers) ==
    [ret |-> SelectSeq(headers, LAMBDA it : Lower(it.k) \notin ocp_header_names),
     arg |-> headers]


(***************************************************************************)
(* The inputs of the codec model.                                          *)
(***************************************************************************)
Id1 == <<"o","c","p","-","1","a","2","b","3","c","4","d">>
Id2 == <<"o","c","p","-","0","0","f","f","0","0","f","f">>

Chunk == "0123456789012345678901234567890123456789"
LongSummary ==
    Chunk \o Chunk \o Chunk \o Chunk \o Chunk \o Chunk \o Chunk \o Chunk
          \o Chunk \o Chunk \o Chunk \o Chunk \o Chunk \o Chunk
          \o "0123456789012345678901234567890123"

Interactions ==
    <<[action |-> "api_call_get", api_endpoint |-> "GET /items",
       result |-> "HTTP 200",
       metadata |-> [url |-> "http://a/items", domain |-> "a"]],
      [action |-> "note", api_endpoint |-> None, result |-> None,
       metadata |-> EmptyDict]>>

\* AgentContext(), AgentContext(agent_type=..., user=..., workspace=...,
\* current_goal=...), and one whose texts are empty strings
InitContexts ==
    {Construct(EmptyDict, Id1, 0),
     Construct([agent_type |-> "ide", user |-> "alice", workspace |-> "ws",
                current_goal |-> "ship"], Id2, 0),
     Construct([agent_type |-> "", workspace |-> "", current_goal |-> ""],
               Id1, 0)}


\* a well-formed session payload, as another agent would send it
PeerPayload == to_dict(Construct([agent_type |-> "peer"], Id2, 0)).d

\* d with d[key] = val
With(d, key, val) ==
    [x \in DOMAIN d \cup {key} |-> IF x = key THEN val ELSE d[x]]

PeerJson(d) == Utf8(JsonText(JDict(d)))

PeerSession == B64(PeerJson(PeerPayload))

\* OCP-Session values that arrive from elsewhere
ForeignSessions ==
    <<Lit(""),
      Lit("invalid-base64-data"),
      [k |-> "nonascii"],                 \* a text with a non-ASCII letter
      B64(NonUtf8Bytes),
      B64(Utf8(Lit("invalid json"))),
      B64(Utf8(JsonText(JList))),
      B64(Utf8(JsonText(JNull))),
      B64(PeerJson(With(PeerPayload, "unexpected", "1"))),
      B64(PeerJson(With(PeerPayload, "created_at", "yesterday"))),
      B64(PeerJson(With(PeerPayload, "last_updated", IsoZulu(DateTime(1))))),
      B64(PeerJson(EmptyDict)),
      PeerSession,
      B64(PeerJson(With(PeerPayload, "context_id", <<"g","a","r","b","a","g","e">>))),
      B64(PeerJson(With(PeerPayload, "context_id", <<>>))),
      B64(PeerJson(With(PeerPayload, "context_id",
                        <<"o","c","p","-","1","2","3">>))),
      B64(PeerJson(With(PeerPayload, "context_id",
                        <<"o","c","p","-","1","A","2","B","3","C","4","D">>))),
      B64(GzipCompress(PeerJson(PeerPayload))),
      GzipPrefixed(B64(GzipCompress(PeerJson(PeerPayload)))),
      GzipPrefixed(B64(Gz(PeerJson(PeerPayload), "truncated"))),
      GzipPrefixed(B64(Gz(PeerJson(PeerPayload), "corrupt"))),
      GzipPrefixed(B64(Gz(PeerJson(PeerPayload), "badcrc"))),
      GzipPrefixed(B64(PeerJson(PeerPayload))),
      GzipPrefixed(Lit("")),
      GzipPrefixed(Lit("invalid-base64-data"))>>

\* the OCP-Context-ID header beside them: some id, or none, or an empty one
ForeignIds == <<"id", "absent", "empty">>

\* session 0 stands for a map without the OCP-Session header
ForeignHeaders(id, session) ==
    (CASE id = "absent" -> <<>>
       [] id = "empty" -> <<Item(OCP_CONTEXT_ID, Lit(<<>>))>>
       [] OTHER -> <<Item(OCP_CONTEXT_ID, Lit(<<"o","c","p","-","1","2","3","4","5","6","7","8">>))>>)
    \o (IF session = 0 THEN <<>>
        ELSE <<Item(OCP_SESSION, ForeignSessions[session])>>)

\* the header maps a caller passes as base_headers
Authorization == <<"A","u","t","h","o","r","i","z","a","t","i","o","n">>
CallerHeaders ==
    <<<<>>,
      <<Item(OCP_CONTEXT_ID, Lit(<<"o","c","p","-","o","l","d">>)),
        Item(Authorization, Lit("Bearer t"))>>,
      <<Item(Lower(OCP_SESSION), Lit("stale")),
        Item(OCP_USER, Lit("alice")),
        Item(Upper(OCP_AGENT_TYPE), Lit("old")),
        Item(Authorization, Lit("Bearer t"))>> >>


Recased(h, style) ==
    [i \in DOMAIN h |->
        Item(CASE style = "upper" -> Upper(h[i].k)
               [] OTHER -> (IF i % 2 = 0 THEN Lower(h[i].k)
                            ELSE [j \in DOMAIN h[i].k |->
                                    IF j % 2 = 0 THEN Upper(h[i].k)[j]
                                    ELSE Lower(h[i].k)[j]]),
             h[i].v)]

(***************************************************************************)
(* The codec as a state machine.                                           *)
(***************************************************************************)
NoResult == [op |-> "none"]

UpdateGoal ==
    \E goal \in {"fix"}, summary \in {None, LongSummary} :
        /\ now < MaxClock
        /\ now' = now + 1
        /\ ctx' = update_goal(ctx, goal, summary, now')
        /\ UNCHANGED <<sideVars, discoveryVars, agentVars, changes, wire, origin, result>>

AddInteraction ==
    \E i \in DOMAIN Interactions :
        /\ now < MaxClock
        /\ now' = now + 1
        /\ ctx' = add_interaction(ctx, Interactions[i].action,
                                  Interactions[i].api_endpoint,
                                  Interactions[i].result,
                                  Interactions[i].metadata, now')
        /\ UNCHANGED <<sideVars, discoveryVars, agentVars, changes, wire, origin, result>>

SetErrorContext ==
    \E error \in {"E", "EE"}, file_path \in {None, "main.py"} :
        /\ now < MaxClock
        /\ now' = now + 1
        /\ ctx' = set_error_context(ctx, error, file_path, now')
        /\ UNCHANGED <<sideVars, discoveryVars, agentVars, changes, wire, origin, result>>

\* context.add_recent_change(change)
AddRecentChange ==
    \E change \in {"a", "b"} :
        /\ Len(changes) < MaxChanges
        /\ now' = now + 1
        /\ ctx' = add_recent_change(ctx, change, now')
        /\ changes' = Append(changes, change)
        /\ UNCHANGED <<sideVars, discoveryVars, agentVars, wire, origin, result>>

\* headers = OCPHeaders.encode_context(context, compress)
Encode ==
    \E compress \in BOOLEAN :
        /\ wire' = encode_context(ctx, compress)
        /\ origin' = [by |-> "encode", ctx |-> ctx, compress |-> compress]
        /\ result' = NoResult
        /\ UNCHANGED <<sideVars, discoveryVars, agentVars, changes, ctx, now>>

\* an intermediary rewrites the header names in another letter case
Recase ==
    \E style \in {"upper", "mixed"} :
        /\ wire # <<>>
        /\ wire' = Recased(wire, style)
        /\ result' = NoResult
        /\ UNCHANGED <<sideVars, discoveryVars, agentVars, changes, ctx, now, origin>>

\* inbound traffic that no encode_context of this process produced: every
\* session value (or none) beside an id, the well-formed one without an id
Receive ==
    \E i \in DOMAIN ForeignIds, session \in 0..Len(ForeignSessions) :
        /\ ForeignIds[i] # "id" =>
              (session > 0 /\ ForeignSessions[session] = PeerSession)
        /\ wire' = ForeignHeaders(ForeignIds[i], session)
        /\ origin' = [by |-> "foreign", id |-> ForeignIds[i], session |-> session]
        /\ result' = NoResult
        /\ UNCHANGED <<sideVars, discoveryVars, agentVars, changes, ctx, now>>

\* OCPHeaders.decode_context(headers)
Decode ==
    \* uuid.uuid4().hex[:8] behind "ocp-": the ids a fresh context can get
    \E fresh \in { <<"o","c","p","-","1","a","2","b","3","c","4","d">>,
                     <<"o","c","p","-","0","0","f","f","0","0","f","f">> } :
        /\ result' = [op |-> "decode", out |-> decode_context(wire, fresh, now)]
        /\ UNCHANGED <<sideVars, discoveryVars, agentVars, changes, ctx, now, wire, origin>>

\* OCPHeaders.validate_headers(headers)
ValidateHeaders ==
    \E fresh \in { <<"o","c","p","-","1","a","2","b","3","c","4","d">> } :
        /\ result' = [op |-> "validate_headers", fresh |-> fresh,
                      out |-> validate_headers(wire, fresh, now)]
        /\ UNCHANGED <<sideVars, discoveryVars, agentVars, changes, ctx, now, wire, origin>>

\* OCPHeaders.merge_headers(base_headers, headers)
Merge ==
    \E i \in DOMAIN CallerHeaders :
        /\ result' = [op |-> "merge", base |-> CallerHeaders[i], ocp |-> wire,
                      out |-> merge_headers(CallerHeaders[i], wire)]
        /\ UNCHANGED <<sideVars, discoveryVars, agentVars, changes, ctx, now, wire, origin>>

\* OCPHeaders.strip_ocp_headers(headers), of the map in flight merged into a
\* caller's map
Strip ==
    \E i \in DOMAIN CallerHeaders :
        LET headers == merge_headers(CallerHeaders[i], wire).ret
        IN /\ result' = [op |-> "strip", arg |-> headers,
                         out |-> strip_ocp_headers(headers)]
           /\ UNCHANGED <<sideVars, discoveryVars, agentVars, changes, ctx, now, wire, origin>>

(***************************************************************************)
(* OpenAPI discovery (ocp/schema_discovery.py).  The text discovery works  *)
(* on letter by letter (paths, methods, names, URLs) is a tuple of         *)
(* one-letter strings, None among such values is NoneText.  A dict with    *)
(* fixed keys is a record, read with Get; a dict whose order matters       *)
(* (paths, operations of a path, responses, properties, tool parameters)   *)
(* is a sequence of [k, v] items.                                          *)
(***************************************************************************)
NoneText == <<"<None>">>

\* bool(s) of an Optional[str]
TruthyText(s) == s # NoneText /\ s # <<>>

\* d.get(key, default)
Get(d, key, default) == IF key \in DOMAIN d THEN d[key] ELSE default

\* x in list
InList(x, list) == \E i \in DOMAIN list : list[i] = x



\* lines 173-200
RECURSIVE parse_parameters_into(_, _)
parse_parameters_into(parsed_params, parameters) ==
    IF parameters = <<>> THEN parsed_params
    ELSE LET param == Head(parameters)
             name == Get(param, "name", NoneText)
             schema == Get(param, "schema", EmptyDict)
             typed == [description |-> Get(param, "description", <<>>),
                       required |-> Get(param, "required", FALSE),
                       location |-> Get(param, "in", "query"),
                       type |-> IF schema # EmptyDict
                                THEN Get(schema, "type", "string")
                                ELSE "string"]
             enumed == IF schema # EmptyDict /\ "enum" \in DOMAIN schema
                       THEN [enum |-> schema.enum] @@ typed ELSE typed
             param_schema ==
                       IF schema # EmptyDict /\ "format" \in DOMAIN schema
                       THEN [format |-> schema.format] @@ enumed ELSE enumed
         IN parse_parameters_into(
                IF ~TruthyText(name) THEN parsed_params
                ELSE DictSet(parsed_params, name, param_schema),
                Tail(parameters))

_parse_parameters(parameters) == parse_parameters_into(<<>>, parameters)

\* lines 218-227: the loop over the properties of an object schema
RECURSIVE parse_properties_into(_, _, _)
parse_properties_into(parameters, properties, required_fields) ==
    IF properties = <<>> THEN parameters
    ELSE LET prop_name == Head(properties).k
             prop_schema == Head(properties).v
             plain == [description |-> Get(prop_schema, "description", <<>>),
                       required |-> InList(prop_name, required_fields),
                       location |-> "body",
                       type |-> Get(prop_schema, "type", "string")]
             entry == IF "enum" \in DOMAIN prop_schema
                      THEN [enum |-> prop_schema.enum] @@ plain ELSE plain
         IN parse_properties_into(DictSet(parameters, prop_name, entry),
                                  Tail(properties), required_fields)

\* the slip of taking no property for required
_parse_request_body_none_required(request_body) ==
    LET content == Get(request_body, "content", EmptyDict)
        json_content == Get(content, "application/json", EmptyDict)
    IN IF json_content # EmptyDict /\ "schema" \in DOMAIN json_content
       THEN LET schema == json_content.schema
            IN IF Get(schema, "type", "") = "object"
               THEN parse_properties_into(<<>>,
                        Get(schema, "properties", <<>>), <<>>)
               ELSE <<>>
       ELSE <<>>

\* lines 202-229
_parse_request_body(request_body) ==
    LET content == Get(request_body, "content", EmptyDict)
        json_content == Get(content, "application/json", EmptyDict)
    IN IF json_content # EmptyDict /\ "schema" \in DOMAIN json_content
       THEN LET schema == json_content.schema
            IN IF Get(schema, "type", "") = "object"
               THEN parse_properties_into(<<>>,
                        Get(schema, "properties", <<>>),
                        Get(schema, "required", <<>>))
               ELSE <<>>
       ELSE <<>>

\* the slip of not looking at the status code
RECURSIVE _parse_responses_any_status(_)
_parse_responses_any_status(responses) ==
    IF responses = <<>> THEN EmptyDict
    ELSE LET content == Get(Head(responses).v, "content", EmptyDict)
             json_content == Get(content, "application/json", EmptyDict)
         IN IF json_content # EmptyDict /\ "schema" \in DOMAIN json_content
            THEN json_content.schema
            ELSE _parse_responses_any_status(Tail(responses))

\* lines 231-245: the schema of the first 2xx response that has a JSON schema
RECURSIVE _parse_responses(_)
_parse_responses(responses) ==
    IF responses = <<>> THEN EmptyDict
    ELSE LET status_code == Head(responses).k
             content == Get(Head(responses).v, "content", EmptyDict)
             json_content == Get(content, "application/json", EmptyDict)
         IN IF /\ StartsWith(status_code, <<"2">>)
               /\ json_content # EmptyDict
               /\ "schema" \in DOMAIN json_content
            THEN json_content.schema
            ELSE _parse_responses(Tail(responses))

\* the slip of keeping the braces of a path template in the name
GenerateToolNameKeepingBraces(path, method, operation_id) ==
    IF TruthyText(operation_id) THEN operation_id
    ELSE Lower(method) \o [i \in DOMAIN path |-> IF path[i] = "/" THEN "_" ELSE path[i]]

\* lines 134-141: the operationId, else a name made of method and path
GenerateToolName(path, method, operation_id) ==
    LET clean_path ==
            SelectSeq([i \in DOMAIN path |-> IF path[i] = "/" THEN "_" ELSE path[i]],
                      LAMBDA x : x \notin {"{", "}"})
    IN IF TruthyText(operation_id) THEN operation_id
       ELSE Lower(method) \o clean_path

\* lines 131-171
_create_tool_from_operation(path, method, operation) ==
    LET operation_id == Get(operation, "operationId", NoneText)
        summary == Get(operation, "summary", <<>>)
        described == IF TruthyText(summary) THEN summary
                     ELSE Get(operation, "description", <<>>)
        description == IF TruthyText(described) THEN described
                       ELSE method \o <<" ">> \o path
        declared == _parse_parameters(Get(operation, "parameters", <<>>))
        parameters ==
            IF method \in {<<"P", "O", "S", "T">>, <<"P", "U", "T">>, <<"P", "A", "T", "C", "H">>} /\ "requestBody" \in DOMAIN operation
            THEN DictUpdate(declared, _parse_request_body(operation.requestBody))
            ELSE declared
    IN [name |-> GenerateToolName(path, method, operation_id),
        description |-> description,
        method |-> method,
        path |-> path,
        parameters |-> parameters,
        response_schema |-> _parse_responses(Get(operation, "responses", <<>>)),
        operation_id |-> operation_id,
        tags |-> Get(operation, "tags", <<>>)]

\* lines 114-120: the operations of one path item
RECURSIVE tools_of_path_item(_, _)
tools_of_path_item(path, path_item) ==
    IF path_item = <<>> THEN <<>>
    ELSE LET method == Head(path_item).k
             operation == Head(path_item).v
         IN (IF Lower(method) \in {<<"g", "e", "t">>, <<"p", "o", "s", "t">>, <<"p", "u", "t">>, <<"p", "a", "t", "c", "h">>,
                                   <<"d", "e", "l", "e", "t", "e">>}
             THEN <<_create_tool_from_operation(path, Upper(method), operation)>>
             ELSE <<>>)
            \o tools_of_path_item(path, Tail(path_item))

\* lines 110-120
RECURSIVE tools_of_paths(_)
tools_of_paths(paths) ==
    IF paths = <<>> THEN <<>>
    ELSE tools_of_path_item(Head(paths).k, Head(paths).v)
         \o tools_of_paths(Tail(paths))

\* the slip of looking at the servers before the override
resolve_base_url_servers_first(spec_data, base_url_override) ==
    LET servers == Get(spec_data, "servers", <<>>)
    IN IF servers # <<>> THEN Get(servers[1], "url", <<>>)
       ELSE IF TruthyText(base_url_override) THEN base_url_override
       ELSE <<>>

\* lines 100-107
resolve_base_url(spec_data, base_url_override) ==
    IF TruthyText(base_url_override) THEN base_url_override
    ELSE LET servers == Get(spec_data, "servers", <<>>)
         IN IF servers # <<>> THEN Get(servers[1], "url", <<>>) ELSE <<>>

\* lines 91-129; spec_data.get of a value that is no dict is an
\* AttributeError
_parse_openapi_spec(spec_data, base_url_override) ==
    IF spec_data.jt # "dict" THEN Raise([type |-> "AttributeError"])
    ELSE LET info == Get(spec_data.d, "info", EmptyDict)
         IN Ok([base_url |-> resolve_base_url(spec_data.d, base_url_override),
                title |-> Get(info, "title", "Unknown API"),
                version |-> Get(info, "version", "1.0.0"),
                description |-> Get(info, "description", ""),
                tools |-> tools_of_paths(Get(spec_data.d, "paths", <<>>)),
                raw_spec |-> spec_data.d])

(***************************************************************************)
(* What a spec URL answers: requests.get raises, or a response with a      *)
(* status and a body.  A body is JSON text, YAML text that is not JSON, or *)
(* text that is neither.                                                   *)
(***************************************************************************)
Response(status, body) == [kind |-> "response", status |-> status, body |-> body]
JsonBody(v) == [fmt |-> "json", v |-> v]
YamlBody(v) == [fmt |-> "yaml", v |-> v]

\* f"Failed to fetch OpenAPI spec from {spec_url}: {e}"
FetchFailed(spec_url, e) ==
    [type |-> "Exception", text |-> "Failed to fetch OpenAPI spec from",
     url |-> spec_url, cause |-> e]

\* lines 71-89
_fetch_spec(spec_url, response, yaml_importable) ==
    IF response.kind = "raises"
    THEN Raise(FetchFailed(spec_url, [type |-> response.exc]))
    ELSE IF response.status >= 400 /\ response.status < 600
    THEN Raise(FetchFailed(spec_url, [type |-> "HTTPError"]))
    ELSE IF response.body.fmt = "json" THEN Ok(response.body.v)
    ELSE IF ~yaml_importable
    THEN Raise(FetchFailed(spec_url,
             [type |-> "Exception",
              text |-> "YAML spec detected but PyYAML not installed"]))
    ELSE IF response.body.fmt = "yaml" THEN Ok(response.body.v)
    ELSE Raise(FetchFailed(spec_url, [type |-> "YAMLError"]))

\* the slip of a discover_api that never looks in the cache
discover_api_uncached(cache, spec_url, base_url, response, yaml_importable) ==
    LET spec_data == _fetch_spec(spec_url, response, yaml_importable)
    IN IF ~spec_data.ok
       THEN [cached_specs |-> cache, fetched |-> TRUE, out |-> spec_data]
       ELSE LET parsed_spec == _parse_openapi_spec(spec_data.val, base_url)
            IN IF ~parsed_spec.ok
               THEN [cached_specs |-> cache, fetched |-> TRUE,
                     out |-> parsed_spec]
               ELSE [cached_specs |->
                         DictSet(cache, spec_url, parsed_spec.val),
                     fetched |-> TRUE, out |-> parsed_spec]

\* lines 47-69: the cache after the call, whether the URL was requested, and
\* what the call returned or raised
discover_api(cache, spec_url, base_url, response, yaml_importable) ==
    IF DictHas(cache, spec_url)
    THEN [cached_specs |-> cache, fetched |-> FALSE,
          out |-> Ok(DictGet(cache, spec_url))]
    ELSE LET spec_data == _fetch_spec(spec_url, response, yaml_importable)
         IN IF ~spec_data.ok
            THEN [cached_specs |-> cache, fetched |-> TRUE, out |-> spec_data]
            ELSE LET parsed_spec == _parse_openapi_spec(spec_data.val, base_url)
                 IN IF ~parsed_spec.ok
                    THEN [cached_specs |-> cache, fetched |-> TRUE,
                          out |-> parsed_spec]
                    ELSE [cached_specs |->
                              DictSet(cache, spec_url, parsed_spec.val),
                          fetched |-> TRUE, out |-> parsed_spec]

\* the slip of comparing the letters as they are
search_tools_case_sensitive(api_spec, query) ==
    LET in(q, s) ==
            \E i \in 0..(Len(s) - Len(q)) : SubSeq(s, i + 1, i + Len(q)) = q
    IN SelectSeq(api_spec.tools,
                 LAMBDA tool : in(query, tool.name) \/ in(query, tool.description))

\* lines 251-261; in(q, s) is Python's "q in s" for two strings
search_tools(api_spec, query) ==
    LET in(q, s) ==
            \E i \in 0..(Len(s) - Len(q)) : SubSeq(s, i + 1, i + Len(q)) = q
        query_lower == Lower(query)
    IN SelectSeq(api_spec.tools,
                 LAMBDA tool : \/ in(query_lower, Lower(tool.name))
                               \/ in(query_lower, Lower(tool.description)))

\* lines 287-289
clear_cache(cache) == <<>>

(***************************************************************************)
(* Documents and answers the model discovers.                              *)
(***************************************************************************)
StringSchema == [type |-> "string"]

\* the sample of tests/test_schema_discovery.py, its server with a trailing
\* slash and a 201 response added
UsersDoc ==
    [openapi |-> "3.0.0",
     info |-> [title |-> "Test API", version |-> "1.0.0"],
     servers |-> <<[url |-> <<"h", ":", "/", "/", "a", "/">>]>>,
     paths |-> <<
        [k |-> <<"/", "u", "s", "e", "r", "s">>, v |-> <<
            [k |-> <<"g", "e", "t">>, v |->
                [summary |-> <<"L", "i", "s", "t", " ", "u", "s", "e", "r", "s">>,
                 parameters |-> <<
                    [name |-> <<"l", "i", "m", "i", "t">>, in |-> "query",
                     schema |-> [type |-> "integer"], required |-> FALSE]>>]],
            [k |-> <<"p", "o", "s", "t">>, v |->
                [summary |-> <<"C", "r", "e", "a", "t", "e", " ", "u", "s", "e", "r">>,
                 requestBody |-> [content |-> ("application/json" :>
                    [schema |->
                        [type |-> "object",
                         properties |-> <<
                            [k |-> <<"n", "a", "m", "e">>, v |-> StringSchema],
                            [k |-> <<"e", "m", "a", "i", "l">>, v |-> StringSchema]>>,
                         required |-> <<<<"n", "a", "m", "e">>>>]])],
                 responses |-> <<
                    [k |-> <<"2", "0", "1">>, v |-> [content |-> ("application/json" :>
                        [schema |-> [type |-> "object"]])]]>>]]>>],
        [k |-> <<"/", "u", "s", "e", "r", "s", "/", "{", "i", "d", "}">>, v |-> <<
            [k |-> <<"g", "e", "t">>, v |->
                [description |-> <<"G", "e", "t", " ", "u", "s", "e", "r">>,
                 parameters |-> <<
                    [name |-> <<"i", "d">>, in |-> "path",
                     schema |-> StringSchema, required |-> TRUE]>>]]>>]>>]







\* a JSON response body with the given schema
JsonContent(schema) == [content |-> ("application/json" :> [schema |-> schema])]

\* a document whose operations declare parameters that their request bodies
\* declare too, a cookie parameter, parameters without a place or a name,
\* several responses, and an empty operationId
ItemsDoc ==
    [openapi |-> "3.0.3",
     info |-> [title |-> "Items", version |-> "1"],
     paths |-> <<
        [k |-> <<"/", "i", "t", "e", "m", "s", "/", "{", "i", "d", "}">>, v |-> <<
            [k |-> <<"p", "u", "t">>, v |->
                [parameters |-> <<
                    [name |-> <<"n", "a", "m", "e">>, in |-> "query", required |-> TRUE],
                    [name |-> <<"i", "d">>, in |-> "path", required |-> TRUE,
                     schema |-> StringSchema],
                    [name |-> <<"s", "i", "d">>, in |-> "cookie"],
                    [name |-> <<"q">>],
                    [in |-> "header"]>>,
                 requestBody |-> JsonContent(
                    [type |-> "object",
                     properties |-> <<
                        [k |-> <<"n", "a", "m", "e">>, v |-> StringSchema],
                        [k |-> <<"n", "o", "t", "e">>, v |-> StringSchema]>>,
                     required |-> <<<<"n", "o", "t", "e">>>>]),
                 responses |-> <<
                    [k |-> <<"4", "0", "4">>, v |-> JsonContent([type |-> "string"])],
                    [k |-> <<"2", "0", "4">>, v |-> EmptyDict],
                    [k |-> <<"2", "0", "0">>, v |-> JsonContent([type |-> "object"])],
                    [k |-> <<"2", "0", "1">>, v |-> JsonContent([type |-> "array"])]>>]],
            [k |-> <<"P", "A", "T", "C", "H">>, v |->
                [operationId |-> <<>>,
                 parameters |-> <<
                    [name |-> <<"t", "a", "g">>, in |-> "header", required |-> FALSE]>>,
                 requestBody |-> JsonContent(
                    [type |-> "object",
                     properties |-> <<[k |-> <<"t", "a", "g">>, v |-> [type |-> "integer"]]>>,
                     required |-> <<<<"t", "a", "g">>>>]),
                 responses |-> <<
                    [k |-> <<"5", "0", "0">>, v |-> JsonContent([type |-> "string"])]>>]],
            [k |-> <<"g", "e", "t">>, v |->
                [operationId |-> <<"g", "e", "t", "I", "t", "e", "m">>,
                 parameters |-> <<[name |-> <<"n", "a", "m", "e">>, in |-> "query"]>>,
                 requestBody |-> JsonContent(
                    [type |-> "object",
                     properties |-> <<[k |-> <<"n", "a", "m", "e">>, v |-> StringSchema]>>]),
                 responses |-> <<
                    [k |-> <<"2", "0", "0">>, v |-> JsonContent([type |-> "object"])],
                    [k |-> <<"2", "0", "2">>, v |-> JsonContent([type |-> "array"])]>>]]>>]>>]

Answers ==
    <<[kind |-> "raises", exc |-> "ConnectionError"],
      Response(404, [fmt |-> "garbage"]),
      Response(500, JsonBody(JDict(UsersDoc))),
      Response(200, JsonBody(JDict(UsersDoc))),
      Response(200, YamlBody(JDict(UsersDoc))),
      \* a later edition of the document: another version, two servers, one
      \* operation with an operationId
      Response(200, JsonBody(JDict(
        [openapi |-> "3.0.0",
         info |-> [title |-> "Test API", version |-> "2.0.0",
                   description |-> "second edition"],
         servers |-> <<[url |-> <<"h", ":", "/", "/", "b">>], [url |-> <<"h", ":", "/", "/", "c">>]>>,
         paths |-> <<
            [k |-> <<"/", "p", "i", "n", "g">>, v |-> <<
                [k |-> <<"p", "a", "r", "a", "m", "e", "t", "e", "r", "s">>, v |-> EmptyDict],
                [k |-> <<"D", "E", "L", "E", "T", "E">>, v |-> [operationId |-> <<"p", "i", "n", "g">>]]>>]>>]))),
      \* a Swagger 2.0 document, which has no servers member
      Response(200, JsonBody(JDict(
        [swagger |-> "2.0", info |-> [title |-> "Old API"], paths |-> <<>>]))),
      \* an empty servers list
      Response(200, YamlBody(JDict(
        [openapi |-> "3.1.0", info |-> [title |-> "E"], servers |-> <<>>]))),
      \* a first server without a url
      Response(200, JsonBody(JDict(
        [openapi |-> "3.1.0", info |-> [title |-> "S"],
         servers |-> <<[description |-> "production"]>>]))),
      Response(200, [fmt |-> "garbage"]),
      \* documents without the openapi or swagger member
      Response(200, JsonBody(JDict(
        [info |-> [title |-> "Notes"],
         paths |-> <<[k |-> <<"/", "n">>, v |-> <<[k |-> <<"g", "e", "t">>, v |-> EmptyDict]>>]>>]))),
      Response(200, JsonBody(JDict(EmptyDict))),
      Response(200, JsonBody(JList)),
      Response(200, YamlBody([jt |-> "str"])),
      Response(304, YamlBody(JNull)),
      Response(200, JsonBody(JDict(ItemsDoc)))>>

Urls == {<<"u", "1">>, <<"u", "2">>}


BaseUrlOverrides == <<NoneText, <<>>, <<"h", ":", "/", "/", "o">>>>

(***************************************************************************)
(* Discovery as a state machine.                                           *)
(***************************************************************************)
NoCall == [op |-> "none"]

\* the record of a discover_api call: its arguments, the answer of the URL,
\* the cache before and after, and the outcome
Recorded(spec_url, base_url, answer, done) ==
    [op |-> "discover", spec_url |-> spec_url, base_url |-> base_url,
     answer |-> answer,
     before |-> cached_specs,
     earlier |-> discovered[spec_url],
     after |-> done.cached_specs,
     fetched |-> done.fetched,
     out |-> done.out]

\* the APISpecs returned so far, this call's included
Noted(spec_url, done) ==
    IF done.out.ok /\ discovered[spec_url] = NoVal
    THEN [discovered EXCEPT ![spec_url] = done.out.val]
    ELSE discovered

\* spec = discovery.discover_api(spec_url, base_url), the URL answering
\* with any of the answers
Discover ==
    \E spec_url \in Urls, b \in DOMAIN BaseUrlOverrides :
      \* the first URL answers anything; the second serves the sample or
      \* its later edition, when it can be reached
      \E a \in (IF spec_url = <<"u", "1">> THEN DOMAIN Answers ELSE {1, 4, 6}) :
        LET done == discover_api(cached_specs, spec_url, BaseUrlOverrides[b],
                                 Answers[a], yaml_installed)
        IN /\ cached_specs' = done.cached_specs
           /\ discovered' = Noted(spec_url, done)
           /\ call' = Recorded(spec_url, BaseUrlOverrides[b], Answers[a], done)
           /\ UNCHANGED <<sideVars, codecVars, agentVars, changes, yaml_installed>>

\* discovery.search_tools(api_spec, query), for an APISpec that discover_api
\* returned
SearchTools ==
    \E i \in DOMAIN cached_specs :
      \E query \in {<<"G", "E", "T">>, <<"C", "r", "e", "a", "t", "e">>, <<"z", "z", "z">>, <<>>} :
        /\ call' = [op |-> "search_tools", api_spec |-> cached_specs[i].v,
                    query |-> query,
                    out |-> search_tools(cached_specs[i].v, query)]
        /\ UNCHANGED <<sideVars, codecVars, agentVars, changes, yaml_installed,
                       cached_specs, discovered>>

\* discovery.clear_cache()
ClearCache ==
    /\ cached_specs' = clear_cache(cached_specs)
    /\ discovered' = [u \in Urls |-> NoVal]
    /\ call' = NoCall
    /\ UNCHANGED <<sideVars, codecVars, agentVars, changes, yaml_installed>>

(***************************************************************************)
(* The agent (ocp_agent/agent.py) and its HTTP client                      *)
(* (ocp_agent/http_client.py), for an agent built with enable_cache=False  *)
(* whose APIs are registered by spec URL.                                  *)
(***************************************************************************)
\* str(n) of a natural number
RECURSIVE StrInt(_)
StrInt(n) ==
    LET digits == <<"0","1","2","3","4","5","6","7","8","9">>
    IN IF n < 10 THEN <<digits[n + 1]>>
       ELSE StrInt(n \div 10) \o <<digits[(n % 10) + 1]>>

\* Python values passed as tool parameters
PyStr(s) == [py |-> "str", v |-> s]
PyInt(n) == [py |-> "int", v |-> n]

\* str(value)
Str(value) ==
    IF value.py = "str" THEN value.v
    ELSE IF value.py = "int" THEN StrInt(value.v)
    ELSE IF value.v THEN <<"T", "r", "u", "e">> ELSE <<"F", "a", "l", "s", "e">>

\* s.rstrip(c)
RECURSIVE RStrip(_, _)
RStrip(s, c) ==
    IF s # <<>> /\ s[Len(s)] = c THEN RStrip(SubSeq(s, 1, Len(s) - 1), c)
    ELSE s

\* s.replace(old, new) for a non-empty old
RECURSIVE ReplaceAll(_, _, _)
ReplaceAll(s, old, new) ==
    IF Len(s) < Len(old) THEN s
    ELSE IF SubSeq(s, 1, Len(old)) = old
    THEN new \o ReplaceAll(SubSeq(s, Len(old) + 1, Len(s)), old, new)
    ELSE <<Head(s)>> \o ReplaceAll(Tail(s), old, new)

\* the index of the first letter of s that is in chars, Len(s) + 1 if none
FirstOf(s, chars) ==
    IF \E i \in DOMAIN s : s[i] \in chars
    THEN CHOOSE i \in DOMAIN s :
            s[i] \in chars /\ \A j \in 1..(i - 1) : s[j] \notin chars
    ELSE Len(s) + 1

\* urllib.parse.urlparse(url): netloc and path
UrlParse(url) ==
    LET colon == FirstOf(url, {":"})
        has_scheme ==
            /\ colon > 1
            /\ colon <= Len(url)
            /\ \A j \in 1..(colon - 1) :
                  url[j] \in DOMAIN LowerLetters \cup DOMAIN UpperLetters
        rest == IF has_scheme THEN SubSeq(url, colon + 1, Len(url)) ELSE url
        has_netloc == StartsWith(rest, <<"/", "/">>)
        after == IF has_netloc THEN SubSeq(rest, 3, Len(rest)) ELSE rest
        cut == IF has_netloc THEN FirstOf(after, {"/", "?", "#"}) ELSE 1
        tail == SubSeq(after, cut, Len(after))
    IN [netloc |-> IF has_netloc THEN SubSeq(after, 1, cut - 1) ELSE <<>>,
        path |-> SubSeq(tail, 1, FirstOf(tail, {"?", "#"}) - 1)]

\* context.py lines 102-105
add_api_spec(c, api_name, openapi_url, clock) ==
    [c EXCEPT !.api_specs = (api_name :> openapi_url) @@ @,
              !.last_updated = DateTime(clock)]

\* what the server does with a request: it answers, or the request raises
Answered(status_code, reason, size) ==
    [kind |-> "response", status_code |-> status_code, reason |-> reason,
     size |-> size]
Failed(type, message) == [kind |-> "raises", type |-> type, message |-> message]

\* requests.Response.ok, which is also bool(response)
ResponseOk(response) == response.status_code < 400

\* http_client.py lines 59-81, auto_update_context being true
_log_interaction(c, method, url, response, clock) ==
    LET parsed == UrlParse(url)
    IN add_interaction(c,
           <<"a", "p", "i", "_", "c", "a", "l", "l", "_">> \o Lower(method),
           Upper(method) \o <<" ">> \o parsed.path,
           IF ResponseOk(response)
           THEN <<"H", "T", "T", "P", " ">> \o StrInt(response.status_code) ELSE NoneText,
           [url |-> url, domain |-> parsed.netloc],
           clock)

\* http_client.py lines 47-57 and 83-99: the request as the underlying
\* session receives it.  Its headers are the caller's updated with
\* create_ocp_headers(context); the model keeps the context they encode.
PreparedRequest(c, method, url, kwargs) ==
    [method |-> method, url |-> url,
     kwargs |-> [headers |-> [caller |-> Get(kwargs, "headers", EmptyDict),
                              ocp_headers_of |-> c]] @@ kwargs]

\* http_client.py lines 83-99: the context after the call, and what it
\* returns or raises
http_request(c, method, url, kwargs, outcome, clock) ==
    IF outcome.kind = "raises"
    THEN [ctx |-> c, out |-> Raise(outcome)]
    ELSE [ctx |-> _log_interaction(c, method, url, outcome, clock),
          out |-> Ok(outcome)]

\* agent.py lines 145-150: the tools of every API, in the order of known_apis
RECURSIVE all_tools(_)
all_tools(specs) ==
    IF specs = <<>> THEN <<>>
    ELSE Head(specs).v.tools \o all_tools(Tail(specs))

\* agent.py lines 130-150
list_tools(apis, api_name) ==
    IF TruthyText(api_name)
    THEN IF ~DictHas(apis, api_name)
         THEN Raise([type |-> "ValueError", text |-> "Unknown API",
                     api_name |-> api_name])
         ELSE Ok(DictGet(apis, api_name).tools)
    ELSE Ok(all_tools(apis))

NoTool == [name |-> NoneText]

\* agent.py lines 152-169
get_tool(apis, tool_name, api_name) ==
    LET tools == list_tools(apis, api_name)
    IN IF ~tools.ok THEN tools
       ELSE IF \E i \in DOMAIN tools.val : tools.val[i].name = tool_name
       THEN Ok(tools.val[FirstOf([i \in DOMAIN tools.val |-> tools.val[i].name],
                                 {tool_name})])
       ELSE Ok(NoTool)

\* agent.py lines 280-283: the required parameters that are missing
RECURSIVE missing_required(_, _)
missing_required(declared, parameters) ==
    IF declared = <<>> THEN <<>>
    ELSE (IF Get(Head(declared).v, "required", FALSE)
             /\ ~DictHas(parameters, Head(declared).k)
          THEN <<[text |-> "Missing required parameter",
                  param |-> Head(declared).k]>>
          ELSE <<>>)
         \o missing_required(Tail(declared), parameters)

\* agent.py lines 285-297: the parameters of another type than declared
RECURSIVE mistyped(_, _)
mistyped(tool, given) ==
    IF given = <<>> THEN <<>>
    ELSE LET param_name == Head(given).k
             value == Head(given).v
             expected_type ==
                IF DictHas(tool.parameters, param_name)
                THEN Get(DictGet(tool.parameters, param_name), "type", "string")
                ELSE "string"
             wrong ==
                \/ expected_type = "integer" /\ value.py \notin {"int", "bool"}
                \/ expected_type = "boolean" /\ value.py # "bool"
                \/ expected_type = "array" /\ value.py # "list"
         IN (IF wrong
             THEN <<[text |-> "should be", param |-> param_name,
                     expected |-> expected_type, got |-> value.py]>>
             ELSE <<>>)
            \o mistyped(tool, Tail(given))

\* the slip of checking the types only
validate_parameters_types_only(tool, parameters) == mistyped(tool, parameters)

\* agent.py lines 276-299
_validate_parameters(tool, parameters) ==
    missing_required(tool.parameters, parameters) \o mistyped(tool, parameters)

\* agent.py lines 314-325: the given parameters the tool declares at a
\* location
ParamsAt(tool, parameters, location) ==
    SelectSeq(parameters, LAMBDA it :
        /\ DictHas(tool.parameters, it.k)
        /\ Get(DictGet(tool.parameters, it.k), "location", "query") = location)

\* agent.py lines 327-329
RECURSIVE replace_path_params(_, _)
replace_path_params(url, path_params) ==
    IF path_params = <<>> THEN url
    ELSE replace_path_params(
            ReplaceAll(url, <<"{">> \o Head(path_params).k \o <<"}">>,
                       Str(Head(path_params).v)),
            Tail(path_params))

\* agent.py lines 301-346
_build_request(api_spec, tool, parameters) ==
    LET query_params == ParamsAt(tool, parameters, "query")
        body_params == ParamsAt(tool, parameters, "body")
        header_params == ParamsAt(tool, parameters, "header")
        with_params == IF query_params # <<>>
                       THEN [params |-> query_params] ELSE EmptyDict
        with_json == IF body_params # <<>>
                     THEN [json |-> body_params] @@ with_params
                     ELSE with_params
        with_headers == IF header_params # <<>>
                        THEN [headers |-> header_params] @@ with_json
                        ELSE with_json
    IN [url |-> replace_path_params(
                    RStrip(api_spec.base_url, "/") \o tool.path,
                    ParamsAt(tool, parameters, "path")),
        request_params |-> [timeout |-> 30] @@ with_headers]

\* the slip of re-raising the request's exception without the tool_error entry
call_tool_error_unlogged(c, apis, tool_name, parameters, api_name, outcome, clock) ==
    LET tool == get_tool(apis, tool_name, api_name)
        quiet(out) == [ctx |-> c, sent |-> <<>>, out |-> out]
    IN IF ~tool.ok THEN quiet(tool)
       ELSE IF tool.val = NoTool
       THEN quiet(Raise([type |-> "ValueError", text |-> "Tool not found",
                         tool_name |-> tool_name,
                         available |-> list_tools(apis, api_name).val]))
       ELSE IF ~\E i \in DOMAIN apis : InList(tool.val, apis[i].v.tools)
       THEN quiet(Raise([type |-> "ValueError",
                         text |-> "Could not find API spec for tool",
                         tool_name |-> tool_name]))
       ELSE
       LET api_spec == apis[FirstOf(
                [i \in DOMAIN apis |-> InList(tool.val, apis[i].v.tools)],
                {TRUE})].v
           validation_errors == _validate_parameters(tool.val, parameters)
       IN IF validation_errors # <<>>
          THEN quiet(Raise([type |-> "ValueError",
                            text |-> "Parameter validation failed",
                            errors |-> validation_errors]))
          ELSE
          LET built == _build_request(api_spec, tool.val, parameters)
              url == built.url
              called == add_interaction(c,
                  <<"t", "o", "o", "l", "_", "c", "a", "l", "l", ":">> \o tool_name, url, <<"e", "x", "e", "c", "u", "t", "i", "n", "g">>,
                  [tool_name |-> tool_name, parameters |-> parameters,
                   method |-> tool.val.method],
                  clock)
              request == PreparedRequest(called, tool.val.method, url,
                                         built.request_params)
              response == http_request(called, tool.val.method, url,
                                       built.request_params, outcome, clock)
          IN IF response.out.ok
             THEN [ctx |-> add_interaction(response.ctx,
                       <<"t", "o", "o", "l", "_", "r", "e", "s", "p", "o", "n", "s", "e", ":">> \o tool_name, url,
                       StrInt(outcome.status_code) \o <<" ">> \o outcome.reason,
                       [status_code |-> outcome.status_code,
                        success |-> ResponseOk(outcome),
                        response_size |-> outcome.size],
                       clock),
                   sent |-> <<request>>,
                   out |-> response.out]
             ELSE [ctx |-> response.ctx,
                   sent |-> <<request>>,
                   out |-> response.out]

\* agent.py lines 194-274: the context after the call, the requests the
\* session received during it, and what the call returns or raises
call_tool(c, apis, tool_name, parameters, api_name, outcome, clock) ==
    LET tool == get_tool(apis, tool_name, api_name)
        quiet(out) == [ctx |-> c, sent |-> <<>>, out |-> out]
    IN IF ~tool.ok THEN quiet(tool)
       ELSE IF tool.val = NoTool
       THEN quiet(Raise([type |-> "ValueError", text |-> "Tool not found",
                         tool_name |-> tool_name,
                         available |-> list_tools(apis, api_name).val]))
       ELSE IF ~\E i \in DOMAIN apis : InList(tool.val, apis[i].v.tools)
       THEN quiet(Raise([type |-> "ValueError",
                         text |-> "Could not find API spec for tool",
                         tool_name |-> tool_name]))
       ELSE
       LET api_spec == apis[FirstOf(
                [i \in DOMAIN apis |-> InList(tool.val, apis[i].v.tools)],
                {TRUE})].v
           validation_errors == _validate_parameters(tool.val, parameters)
       IN IF validation_errors # <<>>
          THEN quiet(Raise([type |-> "ValueError",
                            text |-> "Parameter validation failed",
                            errors |-> validation_errors]))
          ELSE
          LET built == _build_request(api_spec, tool.val, parameters)
              url == built.url
              called == add_interaction(c,
                  <<"t", "o", "o", "l", "_", "c", "a", "l", "l", ":">> \o tool_name, url, <<"e", "x", "e", "c", "u", "t", "i", "n", "g">>,
                  [tool_name |-> tool_name, parameters |-> parameters,
                   method |-> tool.val.method],
                  clock)
              request == PreparedRequest(called, tool.val.method, url,
                                         built.request_params)
              response == http_request(called, tool.val.method, url,
                                       built.request_params, outcome, clock)
          IN IF response.out.ok
             THEN [ctx |-> add_interaction(response.ctx,
                       <<"t", "o", "o", "l", "_", "r", "e", "s", "p", "o", "n", "s", "e", ":">> \o tool_name, url,
                       StrInt(outcome.status_code) \o <<" ">> \o outcome.reason,
                       [status_code |-> outcome.status_code,
                        success |-> ResponseOk(outcome),
                        response_size |-> outcome.size],
                       clock),
                   sent |-> <<request>>,
                   out |-> response.out]
             ELSE [ctx |-> add_interaction(response.ctx,
                       <<"t", "o", "o", "l", "_", "e", "r", "r", "o", "r", ":">> \o tool_name, url,
                       <<"E", "r", "r", "o", "r", ":", " ">> \o outcome.message,
                       [error_type |-> outcome.type,
                        error_message |-> outcome.message],
                       clock),
                   sent |-> <<request>>,
                   out |-> response.out]

\* agent.py lines 61-128, self.storage being None and spec_url given: the
\* agent's APIs, its context and the discovery cache after the call, and
\* the discover_api call made if any, and what the call returns or raises
register_api(c, apis, cache, name, spec_url, base_url, answer, yaml_importable, clock) ==
    IF DictHas(apis, name)
    THEN [known_apis |-> apis, ctx |-> c, cached_specs |-> cache,
          discovery |-> NoCall, out |-> Ok(DictGet(apis, name))]
    ELSE LET added(found, api_spec) ==
                 [known_apis |-> DictSet(apis, name, api_spec),
                  ctx |-> add_interaction(
                      add_api_spec(c, name, spec_url, clock),
                      <<"a", "p", "i", "_", "r", "e", "g", "i", "s", "t", "e", "r", "e", "d">>, spec_url,
                      <<"D", "i", "s", "c", "o", "v", "e", "r", "e", "d", " ">> \o StrInt(Len(api_spec.tools))
                          \o <<" ", "t", "o", "o", "l", "s">>,
                      [api_name |-> name, api_title |-> api_spec.title,
                       tool_count |-> Len(api_spec.tools),
                       base_url |-> api_spec.base_url,
                       source |-> "openapi"],
                      clock),
                  cached_specs |-> found.cached_specs,
                  discovery |-> found,
                  out |-> found.out]
             after(found) ==
                 IF ~found.out.ok
                 THEN [known_apis |-> apis, ctx |-> c,
                       cached_specs |-> found.cached_specs,
                       discovery |-> found, out |-> found.out]
                 ELSE added(found, found.out.val)
         IN after(discover_api(cache, spec_url, base_url, answer,
                               yaml_importable))

(***************************************************************************)
(* What the agent is asked to do.                                          *)
(***************************************************************************)

\* register_api(name, spec_url, base_url) and the answer of the spec URL
Registrations ==
    <<[name |-> <<"a">>, spec_url |-> <<"u", "1">>, base_url |-> NoneText, answer |-> 4],
      [name |-> <<"a">>, spec_url |-> <<"u", "1">>, base_url |-> <<"h", ":", "/", "/", "o">>, answer |-> 4],
      [name |-> <<"a">>, spec_url |-> <<"u", "1">>, base_url |-> NoneText, answer |-> 1],
      [name |-> <<"b">>, spec_url |-> <<"u", "2">>, base_url |-> NoneText, answer |-> 6],
      [name |-> <<"b">>, spec_url |-> <<"u", "1">>, base_url |-> NoneText, answer |-> 12]>>

\* call_tool(tool_name, parameters, api_name)
Invocations ==
    <<[tool_name |-> <<"p", "o", "s", "t", "_", "u", "s", "e", "r", "s">>, parameters |-> EmptyDict,
       api_name |-> NoneText],
      [tool_name |-> <<"p", "o", "s", "t", "_", "u", "s", "e", "r", "s">>,
       parameters |-> <<[k |-> <<"e", "m", "a", "i", "l">>, v |-> PyStr(<<"e", "@", "x">>)]>>,
       api_name |-> <<"a">>],
      [tool_name |-> <<"p", "o", "s", "t", "_", "u", "s", "e", "r", "s">>,
       parameters |-> <<[k |-> <<"n", "a", "m", "e">>, v |-> PyStr(<<"b", "o", "b">>)]>>,
       api_name |-> NoneText],
      [tool_name |-> <<"g", "e", "t", "_", "u", "s", "e", "r", "s">>,
       parameters |-> <<[k |-> <<"l", "i", "m", "i", "t">>, v |-> PyInt(5)]>>,
       api_name |-> NoneText],
      [tool_name |-> <<"g", "e", "t", "_", "u", "s", "e", "r", "s">>,
       parameters |-> <<[k |-> <<"l", "i", "m", "i", "t">>, v |-> PyStr(<<"f", "i", "v", "e">>)]>>,
       api_name |-> NoneText],
      [tool_name |-> <<"g", "e", "t", "_", "u", "s", "e", "r", "s", "_", "i", "d">>,
       parameters |-> <<[k |-> <<"i", "d">>, v |-> PyInt(7)]>>,
       api_name |-> <<"a">>],
      [tool_name |-> <<"g", "e", "t", "_", "u", "s", "e", "r", "s", "_", "i", "d">>, parameters |-> EmptyDict,
       api_name |-> NoneText],
      [tool_name |-> <<"p", "i", "n", "g">>, parameters |-> EmptyDict, api_name |-> <<"b">>],
      [tool_name |-> <<"g", "e", "t", "_", "u", "s", "e", "r", "s">>, parameters |-> EmptyDict,
       api_name |-> <<"z", "z">>],
      [tool_name |-> <<"n", "o", "n", "e", "x", "i", "s", "t", "e", "n", "t">>, parameters |-> EmptyDict,
       api_name |-> NoneText]>>

\* what the API does with the request
Outcomes ==
    <<Answered(200, <<"O", "K">>, 2),
      Answered(404, <<"N", "o", "t", " ", "F", "o", "u", "n", "d">>, 0),
      Failed("ConnectionError", <<"r", "e", "f", "u", "s", "e", "d">>)>>

(***************************************************************************)
(* The agent as a state machine.                                           *)
(***************************************************************************)
\* agent.register_api(name, spec_url, base_url)
RegisterApi ==
    \E r \in DOMAIN Registrations :
      \E reg \in {Registrations[r]} :
        \E done \in {register_api(ctx, known_apis, cached_specs, reg.name,
                          reg.spec_url, reg.base_url, Answers[reg.answer],
                          yaml_installed, now + 1)} :
           /\ now < MaxSteps
           /\ now' = now + 1
           /\ ctx' = done.ctx
           /\ known_apis' = done.known_apis
           /\ cached_specs' = done.cached_specs
           /\ invoked' = [op |-> "register_api", args |-> reg,
                          apis_before |-> known_apis,
                          history_before |-> ctx.history,
                          out |-> done.out]
           /\ discovered' = IF done.discovery = NoCall THEN discovered
                             ELSE Noted(reg.spec_url, done.discovery)
           /\ call' = IF done.discovery = NoCall THEN call
                       ELSE Recorded(reg.spec_url, reg.base_url,
                                     Answers[reg.answer], done.discovery)
           /\ UNCHANGED <<sideVars, wire, origin, result, changes, yaml_installed, sent>>

\* agent.call_tool(tool_name, parameters, api_name)
CallTool ==
    \E i \in DOMAIN Invocations, o \in DOMAIN Outcomes :
      \E inv \in {Invocations[i]} :
        \E done \in {call_tool(ctx, known_apis, inv.tool_name, inv.parameters,
                                inv.api_name, Outcomes[o], now + 1)} :
           /\ now < MaxSteps
           /\ now' = now + 1
           /\ ctx' = done.ctx
           /\ sent' = sent \o done.sent
           /\ invoked' = [op |-> "call_tool", args |-> inv,
                          apis_before |-> known_apis,
                          history_before |-> ctx.history,
                          sent_before |-> sent,
                          out |-> done.out]
           /\ UNCHANGED <<sideVars, wire, origin, result, changes, discoveryVars, known_apis>>

(***************************************************************************)
(* Validation of a context against OCP_CONTEXT_SCHEMA: ocp_agent's         *)
(* validation.py, and schemas.py of the ocp package, which ocp/__init__.py *)
(* exports as validate_context.                                            *)
(***************************************************************************)
\* the pattern ^ocp-[a-f0-9]{8,}$ of OCP_CONTEXT_SCHEMA
HexLower ==
    {"0","1","2","3","4","5","6","7","8","9","a","b","c","d","e","f"}

IsContextId(s) ==
    /\ Len(s) >= 12
    /\ SubSeq(s, 1, 4) = <<"o","c","p","-">>
    /\ \A i \in 5..Len(s) : s[i] \in HexLower

\* validation.py lines 18-116: the keywords of the schema that
\* jsonschema.validate checks (format is an annotation it does not check)
OCP_CONTEXT_SCHEMA ==
    [properties |->
        [context_id |-> [type |-> {"string"}, pattern |-> "^ocp-[a-f0-9]{8,}$"],
         agent_type |-> [type |-> {"string"}],
         user |-> [type |-> {"string", "null"}],
         workspace |-> [type |-> {"string", "null"}],
         current_file |-> [type |-> {"string", "null"}],
         session |-> [type |-> {"object"}],
         history |-> [type |-> {"array"}],
         current_goal |-> [type |-> {"string", "null"}],
         context_summary |-> [type |-> {"string", "null"}],
         error_context |-> [type |-> {"string", "null"}],
         recent_changes |-> [type |-> {"array"}, maxItems |-> 20],
         api_specs |-> [type |-> {"object"}],
         created_at |-> [type |-> {"string"}],
         last_updated |-> [type |-> {"string"}]],
     required |-> {"context_id", "agent_type", "session", "history",
                   "api_specs", "created_at", "last_updated"},
     additionalProperties |-> FALSE]

\* schemas.py lines 22-129: the same schema, but for the enum of agent_type
\* (lines 34-46)
schemas_OCP_CONTEXT_SCHEMA ==
    [OCP_CONTEXT_SCHEMA EXCEPT !.properties.agent_type =
        [type |-> {"string"},
         enum |-> {"generic_agent", "ide_copilot", "debug_assistant",
                   "devops_agent", "customer_support", "code_reviewer",
                   "api_tester"}]]

\* the JSON type of the value of a field of to_dict()
JsonType(name, value) ==
    IF name \in {"session", "api_specs"} THEN "object"
    ELSE IF name \in {"history", "recent_changes"} THEN "array"
    ELSE IF name \in {"context_id", "created_at", "last_updated"} THEN "string"
    ELSE IF value = None THEN "null" ELSE "string"

\* jsonschema.validate(context_dict, schema) raises no ValidationError
Validates(context_dict, schema) ==
    LET Property(name) == schema.properties[name]
        Keywords(name) == DOMAIN Property(name)
    IN /\ schema.required \subseteq DOMAIN context_dict
       /\ schema.additionalProperties
              \/ DOMAIN context_dict \subseteq DOMAIN schema.properties
       /\ \A name \in DOMAIN context_dict \cap DOMAIN schema.properties :
              /\ JsonType(name, context_dict[name]) \in Property(name).type
              /\ "enum" \in Keywords(name) =>
                     context_dict[name] \in Property(name).enum
              /\ "pattern" \in Keywords(name) =>
                     IsContextId(context_dict[name])
              /\ "maxItems" \in Keywords(name) =>
                     Len(context_dict[name]) <= Property(name).maxItems
       \* session: interaction_count an integer of at least 0, agent_type a
       \* string
       /\ "interaction_count" \in DOMAIN context_dict.session =>
              context_dict.session.interaction_count >= 0
       /\ "agent_type" \in DOMAIN context_dict.session =>
              context_dict.session.agent_type # None
       \* history: every item has a timestamp and an action
       /\ \A i \in DOMAIN context_dict.history :
              {"timestamp", "action"} \subseteq DOMAIN context_dict.history[i]

ValidationResult(valid, errors) == [valid |-> valid, errors |-> errors]

\* validation.py lines 135-153
validate_context(context) ==
    IF Validates(to_dict(context).d, OCP_CONTEXT_SCHEMA)
    THEN ValidationResult(TRUE, <<>>)
    ELSE ValidationResult(FALSE, <<"ValidationError">>)

\* schemas.py lines 196-230: the validation done without jsonschema
_basic_validation(context) ==
    LET errors ==
            (IF context.context_id = <<>>
             THEN <<"context_id is required">>
             ELSE IF ~StartsWith(context.context_id, <<"o", "c", "p", "-">>)
             THEN <<"context_id must start with 'ocp-'">>
             ELSE <<>>)
            \o (IF ~Truthy(context.agent_type)
                THEN <<"agent_type is required">> ELSE <<>>)
            \o (IF \E i \in DOMAIN context.history :
                      ~({"timestamp", "action"} \subseteq DOMAIN context.history[i])
                THEN <<"history item missing a required field">> ELSE <<>>)
    IN ValidationResult(errors = <<>>, errors)

\* schemas.py lines 148-170
schemas_validate_context(context, JSONSCHEMA_AVAILABLE) ==
    IF ~JSONSCHEMA_AVAILABLE THEN _basic_validation(context)
    ELSE IF Validates(to_dict(context).d, schemas_OCP_CONTEXT_SCHEMA)
    THEN ValidationResult(TRUE, <<>>)
    ELSE ValidationResult(FALSE, <<"ValidationError">>)

\* validate_context(context), of either package, with jsonschema installed
\* or not
ValidateContext ==
    \/ /\ result' = [op |-> "validate_context", package |-> "ocp_agent",
                      context |-> ctx, out |-> validate_context(ctx)]
       /\ UNCHANGED <<sideVars, discoveryVars, agentVars, changes, ctx, now, wire, origin>>
    \/ \E JSONSCHEMA_AVAILABLE \in BOOLEAN :
          /\ result' = [op |-> "validate_context", package |-> "ocp",
                        jsonschema |-> JSONSCHEMA_AVAILABLE,
                        context |-> ctx,
                        out |-> schemas_validate_context(ctx, JSONSCHEMA_AVAILABLE)]
          /\ UNCHANGED <<sideVars, discoveryVars, agentVars, changes, ctx, now, wire, origin>>

(***************************************************************************)
(* A context in use over its life: its mutators, the agent's calls, and    *)
(* the contexts read back from headers.                                    *)
(***************************************************************************)
\* the interaction_id of the entries of a history, None for an entry
\* without one: {h.get("interaction_id") for h in history}
InteractionIds(history) ==
    {Get(history[i], "interaction_id", None) : i \in DOMAIN history}

\* the slip of putting the entries of the other history first
merge_history_prepended(history, other) ==
    SelectSeq(other, LAMBDA interaction :
        Get(interaction, "interaction_id", None) \notin InteractionIds(history))
    \o history

\* context.py lines 196-200: the entries of the other history whose
\* interaction_id no entry of this history had are appended
merge_history(history, other) ==
    history \o SelectSeq(other, LAMBDA interaction :
                  Get(interaction, "interaction_id", None)
                      \notin InteractionIds(history))

\* context.py lines 168-204: the context after the call, and what the call
\* returns or raises
update_from_headers(c, headers, fresh, clock) ==
    LET after(new_context) ==
            IF new_context.kind = "raise"
            THEN [ctx |-> c, out |-> Raise(new_context.exc)]
            ELSE IF new_context.kind = "none"
            THEN [ctx |-> c, out |-> Ok(FALSE)]
            ELSE [ctx |->
                    [c EXCEPT
                       !.current_goal =
                           IF /\ Truthy(new_context.ctx.current_goal)
                              /\ new_context.ctx.current_goal # c.current_goal
                           THEN new_context.ctx.current_goal ELSE @,
                       !.context_summary =
                           IF Truthy(new_context.ctx.context_summary)
                           THEN new_context.ctx.context_summary ELSE @,
                       !.history =
                           IF new_context.ctx.history # <<>>
                           THEN merge_history(@, new_context.ctx.history)
                           ELSE @,
                       !.last_updated = DateTime(clock)],
                  out |-> Ok(TRUE)]
    IN after(decode_context(headers, fresh, clock))

\* history entries as a server adds them: as add_interaction makes them, and
\* with an interaction_id
ServerStep ==
    [timestamp |-> IsoFormat(DateTime(0)), action |-> "server_step",
     api_endpoint |-> None, result |-> None, metadata |-> EmptyDict]

Identified(interaction, id) ==
    [key \in DOMAIN interaction \cup {"interaction_id"} |->
        IF key = "interaction_id" THEN id ELSE interaction[key]]

PeerHistories ==
    <<<<>>,
      <<ServerStep>>,
      <<Identified(ServerStep, "i1"), Identified(ServerStep, "i2")>> >>

\* the headers of a response: the context a server sends back
PeerHeaders(history) ==
    encode_context(
        [Construct([agent_type |-> "peer", current_goal |-> "answer"], Id2, 0)
            EXCEPT !.history = history],
        FALSE)

\* a payload whose created_at is later than its last_updated
LateCreated == With(PeerPayload, "created_at", IsoZulu(DateTime(1)))

\* the headers of the responses: a server's context with each history, and
\* what arrives from elsewhere (no OCP headers, a session that is no
\* base64, the payload of a peer as it is and with its timestamps changed)
ResponseHeaders ==
    {PeerHeaders(PeerHistories[i]) : i \in DOMAIN PeerHistories}
    \cup {ForeignHeaders("absent", 0),
          ForeignHeaders("id", 2),
          ForeignHeaders("id", 12)}
    \cup {<<Item(OCP_CONTEXT_ID, Lit(Id2)), Item(OCP_SESSION, B64(PeerJson(d)))>> :
             d \in {LateCreated, With(PeerPayload, "last_updated", IsoZulu(DateTime(1)))}}

\* context.update_from_headers(headers): the response carries one of these
\* headers, or the agent's own context sent back
UpdateFromHeaders ==
    \E headers \in ResponseHeaders \cup {encode_context(ctx, FALSE)} :
      \E done \in {update_from_headers(ctx, headers, Id1, now + 1)} :
        /\ now < MaxSteps
        /\ now' = now + 1
        /\ ctx' = done.ctx
        /\ result' = [op |-> "update_from_headers", headers |-> headers,
                      before |-> ctx,
                      decoded |-> decode_context(headers, Id1, now + 1),
                      out |-> done.out]
        /\ UNCHANGED <<sideVars, discoveryVars, agentVars, changes, wire, origin>>

\* context.add_api_spec(api_name, openapi_url)
AddApiSpec ==
    \E api_name \in {<<"a">>, <<"b">>} :
        /\ now < MaxSteps
        /\ now' = now + 1
        /\ ctx' = add_api_spec(ctx, api_name, <<"u", "1">>, now')
        /\ UNCHANGED <<sideVars, discoveryVars, agentVars, changes, wire, origin,
                       result>>


(***************************************************************************)
(* A context sent with a request: the caller's headers are updated with    *)
(* the OCP headers (http_client.py lines 47-57, headers.py lines 159-176)  *)
(* and the receiver decodes the merged map (headers.py lines 90-97).       *)
(***************************************************************************)
\* the OCP-Session value of a context sent earlier
StaleSession ==
    DictGet(encode_context(Construct([agent_type |-> "old"], Id2, 0), FALSE),
            OCP_SESSION)

\* the caller's maps, and maps that hold an OCP header twice: under its
\* name as the encoder writes it and again, later in the map, in lower case
CarriedHeaders ==
    {CallerHeaders[i] : i \in DOMAIN CallerHeaders}
    \cup {<<Item(Lower(OCP_CONTEXT_ID), Lit(Id2)),
            Item(Lower(OCP_SESSION), StaleSession)>>,
          <<Item(OCP_SESSION, StaleSession),
            Item(Authorization, Lit("Bearer t")),
            Item(Lower(OCP_SESSION), StaleSession)>>,
          <<Item(OCP_CONTEXT_ID, Lit(Id2)),
            Item(Lower(OCP_CONTEXT_ID), Lit(""))>>}

\* decode_context(merge_headers(base, encode_context(context, compress)))
Transmit ==
    \E base \in CarriedHeaders, compress \in BOOLEAN :
      \E merged \in {merge_headers(base, encode_context(ctx, compress)).ret} :
        /\ result' = [op |-> "transmit", base |-> base, sent |-> ctx,
                      merged |-> merged,
                      out |-> decode_context(merged, Id1, now)]
        /\ UNCHANGED <<sideVars, discoveryVars, agentVars, changes, ctx, now,
                       wire, origin>>

(***************************************************************************)
(* clone(), context.py lines 148-152, over objects: a context object holds *)
(* its two lists and two dicts by reference, the heap maps a reference to  *)
(* the list or dict behind it, and a method that appends or assigns an     *)
(* item changes the object every holder of the reference sees.             *)
(***************************************************************************)
ContainerFields == {"session", "history", "recent_changes", "api_specs"}

\* the fields of the object o as values
Value(objects, o) ==
    [name \in DOMAIN o |->
        IF name \in ContainerFields THEN objects[o[name]] ELSE o[name]]

\* the context c held as an object whose lists and dicts are new objects
Allocated(objects, c) ==
    [objects |-> objects \o <<c.session, c.history, c.recent_changes, c.api_specs>>,
     o |-> [c EXCEPT !.session = Len(objects) + 1,
                     !.history = Len(objects) + 2,
                     !.recent_changes = Len(objects) + 3,
                     !.api_specs = Len(objects) + 4]]

\* a method of o that left the context c: its lists and dicts changed in place
InPlace(objects, o, c) ==
    [objects |-> [r \in DOMAIN objects |->
                    CASE r = o.session -> c.session
                      [] r = o.history -> c.history
                      [] r = o.recent_changes -> c.recent_changes
                      [] r = o.api_specs -> c.api_specs
                      [] OTHER -> objects[r]],
     o |-> [name \in DOMAIN o |->
              IF name \in ContainerFields THEN o[name] ELSE c[name]]]

\* lines 94-100: append in place, then self.recent_changes = self.recent_changes[-10:]
object_add_recent_change(objects, o, change, clock) ==
    LET appended == Append(objects[o.recent_changes], change)
        c == add_recent_change(Value(objects, o), change, clock)
    IN IF Len(appended) > RecentChangesKept
       THEN [objects |-> [objects EXCEPT ![o.recent_changes] = appended]
                            \o <<c.recent_changes>>,
             o |-> [o EXCEPT !.recent_changes = Len(objects) + 1,
                             !.last_updated = c.last_updated]]
       ELSE InPlace(objects, o, c)

\* the slip of copying the object and not what it holds
clone_sharing(objects, o, fresh, clock) ==
    [objects |-> objects, o |-> [o EXCEPT !.context_id = fresh]]

\* data = self.to_dict(); data["context_id"] = f"ocp-{uuid.uuid4().hex[:8]}";
\* return self.from_dict(data): asdict() copies every list and dict
clone(objects, o, fresh, clock) ==
    LET data == to_dict(Value(objects, o))
        made == from_dict(JDict([data.d EXCEPT !.context_id = fresh]), fresh, clock)
    IN Allocated(objects, made.val)

\* a context that has done nothing, and one with a history and ten changes
Originals ==
    {Construct(EmptyDict, Id1, 0),
     [Construct([agent_type |-> "ide", current_goal |-> "ship"], Id1, 0)
        EXCEPT !.history = <<ServerStep>>,
               !.recent_changes = [i \in 1..RecentChangesKept |-> "edit"]]}

\* uuid4: an id no live context has
UnusedIds(o) == {Id1, Id2} \ {o.context_id}

Fork(objects, original, copy, last, at_clone) ==
    [op |-> "fork", objects |-> objects, original |-> original, clone |-> copy,
     last |-> last, at_clone |-> at_clone]

Clone ==
    /\ forked.clone = NoCtx
    /\ now < MaxSteps
    /\ \E fresh \in UnusedIds(forked.original) :
         \E made \in {clone(forked.objects, forked.original, fresh, now + 1)} :
            forked' = Fork(made.objects, forked.original, made.o, "clone()",
                           Value(forked.objects, forked.original))
    /\ now' = now + 1
    /\ UNCHANGED <<ctx, wire, origin, result, discoveryVars, agentVars,
                   changes, files, threads>>

\* one of the mutating methods, called on the original or on its clone
Methods == {"add_interaction", "add_recent_change", "add_api_spec", "update_goal"}

Called(objects, o, method, clock) ==
    CASE method = "add_interaction" ->
           InPlace(objects, o, add_interaction(Value(objects, o), "search", None,
                                               "ok", EmptyDict, clock))
      [] method = "add_recent_change" ->
           object_add_recent_change(objects, o, "fix", clock)
      [] method = "add_api_spec" ->
           InPlace(objects, o, add_api_spec(Value(objects, o), <<"a">>, <<"u", "1">>, clock))
      [] OTHER ->
           InPlace(objects, o, update_goal(Value(objects, o), "test", None, clock))

Mutate ==
    /\ now < MaxSteps
    /\ \E who \in {"original", "clone"}, method \in Methods :
         /\ forked[who] # NoCtx
         /\ \E done \in {Called(forked.objects, forked[who], method, now + 1)} :
              forked' = [forked EXCEPT !.objects = done.objects,
                                       ![who] = done.o,
                                       !.last = who]
    /\ now' = now + 1
    /\ UNCHANGED <<ctx, wire, origin, result, discoveryVars, agentVars,
                   changes, files, threads>>

(***************************************************************************)
(* OCPStorage, storage.py: the cache and session files of one directory.   *)
(* A file is unreadable, or text that is not JSON, or a JSON value; the    *)
(* directory can be written or not.  A time is a day and the tick within   *)
(* it; the process runs on day 0, and its clock gives the tick.            *)
(***************************************************************************)
Stamp(day, t) == [day |-> day, t |-> t]
Today(clock) == Stamp(0, clock)

\* datetime.isoformat() of an aware datetime, as a JSON string
IsoStamp(stamp) == [jt |-> "str", iso |-> TRUE, aware |-> TRUE, stamp |-> stamp]

Unreadable == [kind |-> "unreadable"]
Garbage == [kind |-> "garbage"]
Json(v) == [kind |-> "json", v |-> v]

\* OCPStorage(base_path) over a directory holding these files
Storage(writable, apis, sessions) ==
    [writable |-> writable, apis |-> apis, sessions |-> sessions]

\* agent.py line 88: max_age_days=7
MaxAgeDays == 7

\* the slip of expiring an entry on its seventh day
NotYoungerThan(cached_at, today, days) ==
    today.day - cached_at.day >= days

\* age > timedelta(days=max_age_days), age being now - cached_at
OlderThan(cached_at, today, days) ==
    \/ today.day - cached_at.day > days
    \/ today.day - cached_at.day = days /\ today.t > cached_at.t

NoSpec == [none |-> TRUE]

\* storage.py lines 67-120: the files after the call, and what it returns
cache_api(store, name, spec, metadata, clock) ==
    LET cache_data ==
            [api_name |-> name,
             title |-> spec.title,
             version |-> spec.version,
             base_url |-> spec.base_url,
             cached_at |-> IsoStamp(Today(clock)),
             source |-> Get(metadata, "source", <<"u", "n", "k", "n", "o", "w", "n">>),
             raw_spec |-> spec.raw_spec,
             tools |-> spec.tools]
    IN IF ~store.writable
       THEN [files |-> store, out |-> Ok(FALSE)]
       ELSE [files |-> [store EXCEPT !.apis = DictSet(@, name, Json(JDict(cache_data)))],
             out |-> Ok(TRUE)]

\* storage.py lines 122-187, max_age_days given: the OCPAPISpec, None, or
\* the exception that the except clause (OSError, IOError, ValueError,
\* KeyError) does not catch
get_cached_api(store, name, max_age_days, clock) ==
    IF ~DictHas(store.apis, name) THEN Ok(NoSpec)
    ELSE
    LET file == DictGet(store.apis, name)
    IN IF file.kind # "json" THEN Ok(NoSpec)
       ELSE IF file.v.jt # "dict" THEN Raise([type |-> "TypeError"])
       ELSE
       LET cache_data == file.v.d
           tools == Get(cache_data, "tools", <<>>)
       IN IF "cached_at" \notin DOMAIN cache_data THEN Ok(NoSpec)
          ELSE IF cache_data.cached_at.jt # "str" THEN Raise([type |-> "AttributeError"])
          ELSE IF ~cache_data.cached_at.iso THEN Ok(NoSpec)
          ELSE IF ~cache_data.cached_at.aware THEN Raise([type |-> "TypeError"])
          ELSE IF OlderThan(cache_data.cached_at.stamp, Today(clock), max_age_days)
          THEN Ok(NoSpec)
          ELSE IF \E i \in DOMAIN tools :
                     ~({"name", "method", "path"} \subseteq DOMAIN tools[i])
          THEN Ok(NoSpec)
          ELSE IF ~({"title", "version", "base_url", "raw_spec"} \subseteq DOMAIN cache_data)
          THEN Ok(NoSpec)
          ELSE Ok([title |-> cache_data.title,
                   version |-> cache_data.version,
                   base_url |-> cache_data.base_url,
                   description |-> Get(cache_data, "description", ""),
                   raw_spec |-> cache_data.raw_spec,
                   tools |-> [i \in DOMAIN tools |->
                       [name |-> tools[i].name,
                        method |-> tools[i].method,
                        path |-> tools[i].path,
                        description |-> Get(tools[i], "description", <<>>),
                        parameters |-> Get(tools[i], "parameters", <<>>),
                        response_schema |-> Get(tools[i], "response_schema", <<>>),
                        operation_id |-> Get(tools[i], "operation_id", NoneText),
                        tags |-> Get(tools[i], "tags", NoneText)]]])

\* storage.py lines 279-303
save_session(store, session_id, context) ==
    LET session_data == [session_id |-> session_id] @@ to_dict(context).d
    IN IF ~store.writable
       THEN [files |-> store, out |-> Ok(FALSE)]
       ELSE [files |-> [store EXCEPT !.sessions =
                            DictSet(@, session_id, Json(JDict(session_data)))],
             out |-> Ok(TRUE)]

\* storage.py lines 305-334: the context, None, or the exception that the
\* except clause does not catch
load_session(store, session_id, fresh, clock) ==
    IF ~DictHas(store.sessions, session_id) THEN Ok(NoCtx)
    ELSE
    LET file == DictGet(store.sessions, session_id)
    IN IF file.kind # "json" THEN Ok(NoCtx)
       ELSE IF file.v.jt # "dict" THEN Raise([type |-> "AttributeError"])
       ELSE
       LET session_data ==
               [key \in DOMAIN file.v.d \ {"session_id"} |-> file.v.d[key]]
           context == from_dict(JDict(session_data), fresh, clock)
       IN IF context.ok THEN context
          ELSE IF context.exc \in {"ValueError", "KeyError"} THEN Ok(NoCtx)
          ELSE Raise([type |-> context.exc])

(***************************************************************************)
(* OCPRegistry.get_api_spec, registry.py lines 42-76 and 123-153.          *)
(***************************************************************************)
_entry_to_spec(api_entry, base_url_override) ==
    LET listed == Get(api_entry, "tools", <<>>)
    IN [base_url |-> IF TruthyText(base_url_override) THEN base_url_override
                     ELSE Get(api_entry, "base_url", <<>>),
        title |-> Get(api_entry, "display_name", api_entry.name),
        version |-> "1.0.0",
        description |-> Get(api_entry, "description", ""),
        tools |-> [i \in DOMAIN listed |->
            [name |-> listed[i].name,
             description |-> listed[i].description,
             method |-> listed[i].method,
             path |-> listed[i].path,
             parameters |-> Get(listed[i], "parameters", <<>>),
             response_schema |-> Get(listed[i], "response_schema", <<>>),
             operation_id |-> Get(listed[i], "operation_id", NoneText),
             tags |-> Get(listed[i], "tags", <<>>)]],
        raw_spec |-> api_entry]

get_api_spec(name, base_url, answer) ==
    CASE answer.kind = "raises" -> Raise([type |-> "RegistryUnavailable"])
      [] answer.kind = "404" -> Raise([type |-> "APINotFound", name |-> name])
      [] OTHER -> Ok(_entry_to_spec(answer.entry, base_url))

(***************************************************************************)
(* register_api of an agent with a storage, agent.py lines 61-128: memory, *)
(* then the cache file, then the spec URL or the registry.  The result     *)
(* names the source that answered.                                         *)
(***************************************************************************)
register_api_cached(c, apis, cache, store, name, spec_url, base_url, answer, listing, yaml_importable, clock) ==
    LET quiet(from, out) ==
            [known_apis |-> apis, ctx |-> c, cached_specs |-> cache,
             files |-> store, discovery |-> NoCall, from |-> from, out |-> out]
        registered(api_spec, source, kind, found) ==
            [known_apis |-> DictSet(apis, name, api_spec),
             ctx |-> add_interaction(
                 add_api_spec(c, name, source, clock),
                 <<"a", "p", "i", "_", "r", "e", "g", "i", "s", "t", "e", "r", "e", "d">>, source,
                 <<"D", "i", "s", "c", "o", "v", "e", "r", "e", "d", " ">> \o StrInt(Len(api_spec.tools)) \o <<" ", "t", "o", "o", "l", "s">>,
                 [api_name |-> name, api_title |-> api_spec.title,
                  tool_count |-> Len(api_spec.tools),
                  base_url |-> api_spec.base_url,
                  source |-> kind],
                 clock),
             cached_specs |-> IF found = NoCall THEN cache ELSE found.cached_specs,
             files |-> cache_api(store, name, api_spec, [source |-> source], clock).files,
             discovery |-> found,
             from |-> kind,
             out |-> Ok(api_spec)]
        from_url(found) ==
            IF ~found.out.ok
            THEN [quiet("openapi", found.out) EXCEPT
                     !.cached_specs = found.cached_specs, !.discovery = found]
            ELSE registered(found.out.val, spec_url, "openapi", found)
        from_registry(listed) ==
            IF ~listed.ok THEN quiet("registry", listed)
            ELSE registered(listed.val, <<"r", "e", "g", "i", "s", "t", "r", "y", ":">> \o name, "registry", NoCall)
        from_cache(cached_spec) ==
            IF ~cached_spec.ok THEN quiet("cache", cached_spec)
            ELSE IF cached_spec.val # NoSpec
            THEN [quiet("cache", cached_spec) EXCEPT
                     !.known_apis = DictSet(apis, name, cached_spec.val),
                     !.ctx = add_api_spec(c, name, <<"c", "a", "c", "h", "e">>, clock)]
            ELSE IF TruthyText(spec_url)
            THEN from_url(discover_api(cache, spec_url, base_url, answer,
                                       yaml_importable))
            ELSE from_registry(get_api_spec(name, base_url, listing))
    IN IF DictHas(apis, name)
       THEN quiet("memory", Ok(DictGet(apis, name)))
       ELSE from_cache(get_cached_api(store, name, MaxAgeDays, clock))

(***************************************************************************)
(* The directories, registrations and registry answers of the model.       *)
(***************************************************************************)
RegistryEntry ==
    [name |-> <<"a">>, display_name |-> <<"A">>, base_url |-> <<"h", ":", "/", "/", "r">>,
     tools |-> <<[name |-> <<"p", "i", "n", "g">>, description |-> <<"P", "i", "n", "g">>,
                  method |-> <<"G", "E", "T">>, path |-> <<"/", "p", "i", "n", "g">>]>>]

Listings ==
    <<[kind |-> "entry", entry |-> RegistryEntry],
      [kind |-> "404"],
      [kind |-> "raises"]>>

\* the file cache_api wrote for the registry's API at the time stamp
PriorEntry(stamp) ==
    [DictGet(cache_api(Storage(TRUE, <<>>, <<>>), <<"a">>,
                       _entry_to_spec(RegistryEntry, NoneText),
                       [source |-> <<"r", "e", "g", "i", "s", "t", "r", "y", ":", "a">>], 0).files.apis, <<"a">>).v.d
        EXCEPT !.cached_at = stamp]

\* the file save_session wrote for a context
SavedSession == to_dict(Construct([agent_type |-> "ide"], Id2, 0)).d

Without(d, key) == [name \in DOMAIN d \ {key} |-> d[name]]

\* a directory of an earlier run: an entry seven days old and one of eight
\* days, a saved session and a damaged one
Kept ==
    Storage(TRUE,
        <<[k |-> <<"a">>, v |-> Json(JDict(PriorEntry(IsoStamp(Stamp(0 - 7, 2)))))],
          [k |-> <<"b">>, v |-> Json(JDict(PriorEntry(IsoStamp(Stamp(0 - 8, 0)))))]>>,
        <<[k |-> <<"s", "1">>, v |-> Json(JDict([session_id |-> <<"s", "1">>] @@ SavedSession))],
          [k |-> <<"s", "2">>, v |-> Garbage],
          [k |-> <<"s", "3">>, v |-> Unreadable]>>)

\* a directory whose files something else wrote or edited
Spoiled ==
    Storage(TRUE,
        <<[k |-> <<"a">>, v |-> Json(JList)],
          [k |-> <<"b">>, v |-> Garbage],
          [k |-> <<"c">>, v |-> Json(JDict(PriorEntry([IsoStamp(Stamp(0 - 1, 0))
                                                     EXCEPT !.aware = FALSE])))],
          [k |-> <<"d">>, v |-> Json(JDict(PriorEntry([jt |-> "int"])))],
          [k |-> <<"e">>, v |-> Json(JDict(Without(PriorEntry(IsoStamp(Stamp(0 - 1, 0))), "title")))],
          [k |-> <<"f">>, v |-> Json(JDict(PriorEntry([IsoStamp(Stamp(0, 0))
                                                     EXCEPT !.iso = FALSE])))],
          [k |-> <<"g">>, v |-> Unreadable]>>,
        <<[k |-> <<"s", "1">>, v |-> Json(JDict([extra |-> 1] @@ SavedSession))],
          [k |-> <<"s", "2">>, v |-> Json(JList)],
          [k |-> <<"s", "3">>, v |-> Json(JDict([SavedSession EXCEPT !.created_at = "yesterday"]))],
          [k |-> <<"s", "4">>, v |-> Json(JDict([SavedSession EXCEPT !.history = "none"]))],
          [k |-> <<"s", "5">>, v |-> Json(JDict(Without(SavedSession, "context_id")))]>>)

Directories ==
    {Storage(TRUE, <<>>, <<>>), Storage(FALSE, <<>>, <<>>), Kept, Spoiled}

ApiNames == {<<"a">>, <<"b">>, <<"c">>, <<"d">>, <<"e">>, <<"f">>, <<"g">>}
SessionIds == {<<"s", "1">>, <<"s", "2">>, <<"s", "3">>, <<"s", "4">>, <<"s", "5">>}

\* register_api(name, spec_url, base_url): by URL and through the registry
CachedRegistrations ==
    <<[name |-> <<"a">>, spec_url |-> <<"u", "1">>, base_url |-> NoneText, answer |-> 4, listing |-> 1],
      [name |-> <<"a">>, spec_url |-> NoneText, base_url |-> NoneText, answer |-> 1, listing |-> 1],
      [name |-> <<"a">>, spec_url |-> NoneText, base_url |-> <<"h", ":", "/", "/", "o">>, answer |-> 1, listing |-> 1],
      [name |-> <<"a">>, spec_url |-> <<"u", "2">>, base_url |-> NoneText, answer |-> 1, listing |-> 1],
      [name |-> <<"b">>, spec_url |-> NoneText, base_url |-> NoneText, answer |-> 1, listing |-> 2],
      [name |-> <<"b">>, spec_url |-> NoneText, base_url |-> NoneText, answer |-> 1, listing |-> 3],
      [name |-> <<"b">>, spec_url |-> <<"u", "1">>, base_url |-> NoneText, answer |-> 4, listing |-> 1]>>

(***************************************************************************)
(* An agent with a storage, as a state machine.                            *)
(***************************************************************************)
RegisterApiCached ==
    \E r \in DOMAIN CachedRegistrations :
      \E reg \in {CachedRegistrations[r]} :
        \E done \in {register_api_cached(ctx, known_apis, cached_specs, files,
                          reg.name, reg.spec_url, reg.base_url,
                          Answers[reg.answer], Listings[reg.listing],
                          yaml_installed, now + 1)} :
           /\ now < MaxSteps
           /\ now' = now + 1
           /\ ctx' = done.ctx
           /\ known_apis' = done.known_apis
           /\ cached_specs' = done.cached_specs
           /\ files' = done.files
           /\ invoked' = [op |-> "register_api", args |-> reg,
                          apis_before |-> known_apis,
                          context_before |-> ctx,
                          files_before |-> files,
                          apis_after |-> done.known_apis,
                          context_after |-> done.ctx,
                          files_after |-> done.files,
                          at |-> now + 1,
                          from |-> done.from,
                          fetched |-> done.discovery # NoCall /\ done.discovery.fetched,
                          out |-> done.out]
           /\ UNCHANGED <<wire, origin, result, changes, yaml_installed, sent,
                          discovered, call, forked, threads>>

\* the process ends and a new OCPAgent starts over the same directory
Restart ==
    /\ known_apis # <<>>
    /\ known_apis' = <<>>
    /\ cached_specs' = <<>>
    /\ ctx' = Construct([agent_type |-> "ai_agent"], Id2, now)
    /\ invoked' = NoCall
    /\ UNCHANGED <<now, wire, origin, result, changes, yaml_installed, sent,
                   discovered, call, sideVars>>

\* storage.get_cached_api(name, max_age_days=7)
GetCachedApi ==
    /\ now < MaxSteps
    /\ now' = now + 1
    /\ \E name \in ApiNames :
         result' = [op |-> "get_cached_api", name |-> name, files |-> files,
                    at |-> now + 1,
                    out |-> get_cached_api(files, name, MaxAgeDays, now + 1)]
    /\ UNCHANGED <<ctx, wire, origin, changes, discoveryVars, agentVars, sideVars>>

\* storage.load_session(session_id)
LoadSession ==
    /\ now < MaxSteps
    /\ now' = now + 1
    /\ \E session_id \in SessionIds :
         result' = [op |-> "load_session", session_id |-> session_id,
                    files |-> files,
                    out |-> load_session(files, session_id, Id1, now + 1)]
    /\ UNCHANGED <<ctx, wire, origin, changes, discoveryVars, agentVars, sideVars>>

\* storage.save_session(session_id, agent.context)
SaveSession ==
    /\ now < MaxSteps
    /\ now' = now + 1
    /\ \E session_id \in {<<"s", "1">>, <<"s", "6">>} :
         \E done \in {save_session(files, session_id, ctx)} :
            /\ files' = done.files
            /\ result' = [op |-> "save_session", session_id |-> session_id,
                          files |-> files, out |-> done.out]
    /\ UNCHANGED <<ctx, wire, origin, changes, discoveryVars, agentVars, forked, threads>>

(***************************************************************************)
(* discover_api called from several threads on one OCPSchemaDiscovery,     *)
(* schema_discovery.py lines 47-69.  No lock is taken: a thread can be     *)
(* suspended between the cache check, the fetch, the parse and the store,  *)
(* and each of these is one step.  The document at the URL does not        *)
(* change: every fetch gets the same answer.                               *)
(***************************************************************************)
MaxThreads == 2

\* a caller of discover_api(spec_url, base_url) that has not started
Caller(spec_url, base_url, answer) ==
    [pc |-> "check", spec_url |-> spec_url, base_url |-> base_url,
     answer |-> answer, spec_data |-> NoVal, parsed_spec |-> NoVal,
     out |-> NoVal]

\* documents that can be fetched and parsed
Documents == {4, 6, 7}

\* line 59: if spec_url in self.cached_specs: return self.cached_specs[spec_url]
CheckCache ==
    \E i \in DOMAIN threads :
      /\ threads[i].pc = "check"
      /\ threads' = [threads EXCEPT ![i] =
            IF DictHas(cached_specs, threads[i].spec_url)
            THEN [@ EXCEPT !.pc = "done",
                           !.out = Ok(DictGet(cached_specs, threads[i].spec_url))]
            ELSE [@ EXCEPT !.pc = "fetch"]]
      /\ UNCHANGED <<codecVars, discoveryVars, agentVars, changes, forked, files>>

\* line 63: spec_data = self._fetch_spec(spec_url)
FetchSpec ==
    \E i \in DOMAIN threads :
      /\ threads[i].pc = "fetch"
      /\ \E spec_data \in {_fetch_spec(threads[i].spec_url,
                                       Answers[threads[i].answer], yaml_installed)} :
           threads' = [threads EXCEPT ![i] =
              IF spec_data.ok
              THEN [@ EXCEPT !.pc = "parse", !.spec_data = spec_data.val]
              ELSE [@ EXCEPT !.pc = "done", !.out = spec_data]]
      /\ UNCHANGED <<codecVars, discoveryVars, agentVars, changes, forked, files>>

\* line 64: parsed_spec = self._parse_openapi_spec(spec_data, base_url)
ParseSpec ==
    \E i \in DOMAIN threads :
      /\ threads[i].pc = "parse"
      /\ \E parsed_spec \in {_parse_openapi_spec(threads[i].spec_data,
                                                 threads[i].base_url)} :
           threads' = [threads EXCEPT ![i] =
              IF parsed_spec.ok
              THEN [@ EXCEPT !.pc = "store", !.parsed_spec = parsed_spec.val]
              ELSE [@ EXCEPT !.pc = "done", !.out = parsed_spec]]
      /\ UNCHANGED <<codecVars, discoveryVars, agentVars, changes, forked, files>>

\* lines 67-69: self.cached_specs[spec_url] = parsed_spec; return parsed_spec
StoreSpec ==
    \E i \in DOMAIN threads :
      /\ threads[i].pc = "store"
      /\ cached_specs' = DictSet(cached_specs, threads[i].spec_url,
                                 threads[i].parsed_spec)
      /\ threads' = [threads EXCEPT ![i] =
            [@ EXCEPT !.pc = "done", !.out = Ok(threads[i].parsed_spec)]]
      /\ UNCHANGED <<codecVars, yaml_installed, discovered, call, agentVars,
                     changes, forked, files>>
(***************************************************************************)
(* Specifications.                                                         *)
(***************************************************************************)
\* OCPSchemaDiscovery(): an empty cache
DiscoveryConstructed ==
    /\ cached_specs = <<>>
    /\ discovered = [u \in Urls |-> NoVal]
    /\ call = NoCall

CodecIdle ==
    /\ now = 0
    /\ wire = <<>>
    /\ origin = [by |-> "none"]
    /\ result = NoResult
    /\ changes = <<>>
    /\ forked = [op |-> "none"]
    /\ files = <<>>
    /\ threads = <<>>

\* OCPAgent(enable_cache=False) before any call
AgentConstructed ==
    /\ known_apis = <<>>
    /\ sent = <<>>
    /\ invoked = NoCall

Init ==
    /\ ctx \in InitContexts
    /\ CodecIdle
    /\ yaml_installed = TRUE
    /\ DiscoveryConstructed
    /\ AgentConstructed

InitDiscovery ==
    /\ ctx = Construct(EmptyDict, Id1, 0)
    /\ CodecIdle
    /\ yaml_installed \in BOOLEAN
    /\ DiscoveryConstructed
    /\ AgentConstructed

\* agent.py lines 49-59
InitAgent ==
    /\ ctx = Construct([agent_type |-> "ai_agent"], Id1, 0)
    /\ CodecIdle
    /\ yaml_installed = TRUE
    /\ DiscoveryConstructed
    /\ AgentConstructed

\* the agent's side: contexts are built, encoded, carried and decoded
Next ==
    \/ UpdateGoal
    \/ AddInteraction
    \/ SetErrorContext
    \/ Encode
    \/ Recase
    \/ Decode
    \/ Merge
    \/ Strip

\* the receiving side: header maps arrive from anywhere and are decoded
NextInbound ==
    \/ Receive
    \/ Encode
    \/ Recase
    \/ Decode
    \/ ValidateHeaders

Spec == Init /\ [][Next]_vars

SpecInbound == Init /\ [][NextInbound]_vars

\* a discovery object in use: URLs are discovered, the cache is cleared
NextDiscovery ==
    \/ Discover
    \/ SearchTools
    \/ ClearCache

SpecDiscovery == InitDiscovery /\ [][NextDiscovery]_vars

\* an agent in use: APIs are registered, tools are called
NextAgent ==
    \/ RegisterApi
    \/ CallTool

SpecAgent == InitAgent /\ [][NextAgent]_vars


\* a context in use: AgentContext(agent_type=s), changes are recorded, the
\* context is validated
InitContext ==
    /\ ctx \in {Construct([agent_type |-> s], Id1, 0) :
                   s \in {"generic_agent", "custom_agent", ""}}
    /\ CodecIdle
    /\ yaml_installed = TRUE
    /\ DiscoveryConstructed
    /\ AgentConstructed

NextContext ==
    \/ AddRecentChange
    \/ ValidateContext

SpecContext == InitContext /\ [][NextContext]_vars

\* a context over its life: every mutator, the agent's calls, the headers
\* of responses read into it
InitLife ==
    /\ ctx \in {Construct(EmptyDict, Id1, 0),
                Construct([agent_type |-> "ide", current_goal |-> "ship"], Id2, 0)}
    /\ CodecIdle
    /\ yaml_installed = TRUE
    /\ DiscoveryConstructed
    /\ AgentConstructed

NextLife ==
    \/ UpdateGoal
    \/ AddInteraction
    \/ SetErrorContext
    \/ now < MaxSteps /\ AddRecentChange
    \/ AddApiSpec
    \/ UpdateFromHeaders
    \/ RegisterApi
    \/ CallTool

SpecLife == InitLife /\ [][NextLife]_vars

\* a context object, its lists and dicts on the heap, and no clone yet
InitClone ==
    /\ ctx = Construct(EmptyDict, Id1, 0)
    /\ now = 0 /\ wire = <<>> /\ origin = [by |-> "none"] /\ result = NoResult
    /\ changes = <<>> /\ files = <<>> /\ threads = <<>>
    /\ yaml_installed = TRUE /\ DiscoveryConstructed /\ AgentConstructed
    /\ \E c \in Originals :
         \E held \in {Allocated(<<>>, c)} :
            forked = Fork(held.objects, held.o, NoCtx, "none", NoCtx)

NextClone == Clone \/ Mutate

SpecClone == InitClone /\ [][NextClone]_vars

\* OCPAgent(enable_cache=True) over one of the directories, before any call
InitStore ==
    /\ ctx = Construct([agent_type |-> "ai_agent"], Id1, 0)
    /\ now = 0 /\ wire = <<>> /\ origin = [by |-> "none"] /\ result = NoResult
    /\ changes = <<>> /\ forked = [op |-> "none"] /\ threads = <<>>
    /\ yaml_installed = TRUE /\ DiscoveryConstructed /\ AgentConstructed
    /\ files \in Directories

NextStore ==
    \/ RegisterApiCached
    \/ Restart
    \/ GetCachedApi
    \/ LoadSession
    \/ SaveSession

SpecStore == InitStore /\ [][NextStore]_vars

\* one discovery object with an empty cache, and the callers of
\* discover_api for one URL, each with its base_url
InitThreads ==
    /\ ctx = Construct(EmptyDict, Id1, 0)
    /\ now = 0 /\ wire = <<>> /\ origin = [by |-> "none"] /\ result = NoResult
    /\ changes = <<>> /\ forked = [op |-> "none"] /\ files = <<>>
    /\ yaml_installed = TRUE /\ DiscoveryConstructed /\ AgentConstructed
    /\ \E answer \in Documents :
         threads \in [1..MaxThreads ->
            {Caller(<<"u", "1">>, BaseUrlOverrides[b], answer) :
                b \in DOMAIN BaseUrlOverrides}]

NextThreads == CheckCache \/ FetchSpec \/ ParseSpec \/ StoreSpec

SpecThreads == InitThreads /\ [][NextThreads]_vars

\* a context in use, sent with requests whose caller brings headers
InitCarry ==
    /\ ctx \in InitContexts
    /\ CodecIdle /\ yaml_installed = TRUE /\ DiscoveryConstructed /\ AgentConstructed

NextCarry == UpdateGoal \/ AddInteraction \/ SetErrorContext \/ Transmit

SpecCarry == InitCarry /\ [][NextCarry]_vars
(***************************************************************************)
(* Properties of the codec.                                                *)
(***************************************************************************)
\* the OCP-Session value of a header map, whatever the case of its name
SessionValue(h) == DictGet(NormalizeHeaders(h), Lower(OCP_SESSION))

\* C1: decoding the headers that encode_context made of a context c, with
\* either value of compress and after any change of the letter case of the
\* header names, returns a context equal to c in every field.
C1_RoundTrip ==
    (result.op = "decode" /\ origin.by = "encode")
        => result.out = Returned(origin.ctx)

\* a compressed context with history, decoded from recased header names
C1_Witness ==
    /\ result.op = "decode"
    /\ origin.by = "encode"
    /\ origin.compress
    /\ ~DictHas(wire, OCP_SESSION)
    /\ SessionValue(wire).k = "gzip:"
    /\ Len(origin.ctx.history) > 0
    /\ result.out.kind = "ctx"

\* C2: decode_context never raises: whatever the header map, it returns a
\* context or absent.
C2_NeverRaises ==
    result.op = "decode" => result.out.kind \in {"ctx", "none"}

\* C3, as claimed: the session value has the gzip: prefix exactly when
\* compress is true and the JSON is at least 1000 bytes long, and is the
\* plain base64 of the JSON otherwise.
C3_GzipAtLeastThreshold ==
    origin.by = "encode" =>
        LET json == JsonText(to_dict(origin.ctx))
            big == origin.compress /\ TextLen(json) >= CompressThreshold
        IN /\ SessionValue(wire).k = "gzip:" <=> big
           /\ ~big => SessionValue(wire) = B64(Utf8(json))

\* C3, amended: the session value has the gzip: prefix exactly when compress
\* is true and the JSON is more than 1000 bytes long; otherwise (compress
\* false, or a JSON of at most 1000 bytes) it is the plain base64 of the JSON.
C3_GzipAboveThreshold ==
    origin.by = "encode" =>
        LET json == JsonText(to_dict(origin.ctx))
            big == origin.compress /\ TextLen(json) > CompressThreshold
        IN /\ SessionValue(wire).k = "gzip:" <=> big
           /\ big => SessionValue(wire) = GzipPrefixed(B64(Gz(Utf8(json), "none")))
           /\ ~big => SessionValue(wire) = B64(Utf8(json))

\* a JSON of exactly 1000 bytes encoded with compress true: no prefix
C3_Witness ==
    /\ origin.by = "encode"
    /\ origin.compress
    /\ TextLen(JsonText(to_dict(origin.ctx))) = CompressThreshold
    /\ SessionValue(wire).k = "b64"

\* C8: every context that decode_context returns has a context_id of the
\* form ocp- and at least 8 lowercase hexadecimal letters.
C8_DecodedIdWellFormed ==
    (result.op = "decode" /\ result.out.kind = "ctx")
        => IsContextId(result.out.ctx.context_id)

\* C9: strip_ocp_headers returns a map without any name that begins with
\* OCP- in any letter case, keeps every other item as it was, in order, and
\* leaves its argument as it was.
C9_StripRemovesEveryOcpName ==
    result.op = "strip" =>
        LET ocp(key) == StartsWith(Lower(key), <<"o","c","p","-">>)
        IN /\ \A i \in DOMAIN result.out.ret : ~ocp(result.out.ret[i].k)
           /\ result.out.ret = SelectSeq(result.arg, LAMBDA it : ~ocp(it.k))
           /\ result.out.arg = result.arg

\* C10: merge_headers returns a map with the names of both maps, in which a
\* name of the OCP map has the OCP map's value and any other name the base
\* map's value, and the base map is left as it was.
C10_MergePrefersOcp ==
    result.op = "merge" =>
        LET merged == result.out.ret
        IN /\ DictKeys(merged) = DictKeys(result.base) \cup DictKeys(result.ocp)
           /\ Cardinality(DictKeys(merged)) = Len(merged)
           /\ \A i \in DOMAIN result.ocp :
                DictGet(merged, result.ocp[i].k) = result.ocp[i].v
           /\ \A i \in DOMAIN result.base :
                ~DictHas(result.ocp, result.base[i].k)
                    => DictGet(merged, result.base[i].k) = result.base[i].v
           /\ result.out.base = result.base

\* a name held by both maps, with different values
C10_Witness ==
    /\ result.op = "merge"
    /\ \E i \in DOMAIN result.base :
        /\ DictHas(result.ocp, result.base[i].k)
        /\ DictGet(result.ocp, result.base[i].k) # result.base[i].v

\* C11: validate_headers never raises, and returns true exactly when the map
\* has both the OCP-Context-ID and the OCP-Session name (in any letter case)
\* and decode_context returns a context for it.
C11_ValidateIsPresentAndDecodes ==
    result.op = "validate_headers" =>
        /\ result.out.ok
        /\ result.out.val =
              (/\ \E i \in DOMAIN wire : Lower(wire[i].k) = Lower(OCP_CONTEXT_ID)
               /\ \E i \in DOMAIN wire : Lower(wire[i].k) = Lower(OCP_SESSION)
               /\ decode_context(wire, result.fresh, now).kind = "ctx")

\* C12: the map encode_context returns has exactly the names OCP-Context-ID,
\* OCP-Agent-Type, OCP-Version and OCP-Session, plus the goal header exactly
\* when current_goal is set and OCP-Workspace exactly when workspace is set
\* (set: a value that is neither None nor the empty string); the id, agent
\* type, goal and workspace values are the context's fields and the version
\* value is 1.0.
C12_EncodedNamesAndValues ==
    [][Encode =>
        LET names == {wire'[i].k : i \in DOMAIN wire'}
            goal == ctx.current_goal \notin {None, ""}
            workspace == ctx.workspace \notin {None, ""}
        IN /\ names = {OCP_CONTEXT_ID, OCP_AGENT_TYPE, OCP_VERSION, OCP_SESSION}
                        \cup (IF goal THEN {OCP_AGENT_GOAL} ELSE {})
                        \cup (IF workspace THEN {OCP_WORKSPACE} ELSE {})
           /\ Len(wire') = Cardinality(names)
           /\ DictGet(wire', OCP_CONTEXT_ID) = Lit(ctx.context_id)
           /\ DictGet(wire', OCP_AGENT_TYPE) = Lit(ctx.agent_type)
           /\ DictGet(wire', OCP_VERSION) = Lit("1.0")
           /\ goal => DictGet(wire', OCP_AGENT_GOAL) = Lit(ctx.current_goal)
           /\ workspace => DictGet(wire', OCP_WORKSPACE) = Lit(ctx.workspace)]_vars

\* a context with a goal and no workspace, encoded
C12_Witness ==
    /\ origin.by = "encode"
    /\ wire = encode_context(origin.ctx, origin.compress)
    /\ origin.ctx.current_goal = "fix"
    /\ origin.ctx.workspace = None
    /\ DictHas(wire, OCP_AGENT_GOAL)
    /\ ~DictHas(wire, OCP_WORKSPACE)

\* C13: from a context with no recent changes, after n add_recent_change
\* calls recent_changes is the last min(n, 10) strings added, in the order
\* they were added and with duplicates kept, so it is never longer than 10
\* and the oldest entry is the one dropped.
C13_RecentChangesAreLastTen ==
    LET n == Len(changes)
        kept == IF n < 10 THEN n ELSE 10
    IN /\ ctx.recent_changes = SubSeq(changes, n - kept + 1, n)
       /\ Len(ctx.recent_changes) <= 10

\* eleven changes added, the first of them dropped, a duplicate kept
C13_Witness ==
    /\ Len(changes) = 11
    /\ changes[1] = "a"
    /\ changes[2] = "b"
    /\ changes[3] = "b"
    /\ Len(ctx.recent_changes) = 10
    /\ ctx.recent_changes[1] = "b"
    /\ ctx.recent_changes[2] = "b"

\* C20: for every string s (custom values and the empty string included), a
\* freshly constructed AgentContext(agent_type=s) passes validate_context.
C20_AnyAgentTypeValidates ==
    (result.op = "validate_context" /\ changes = <<>>) => result.out.valid

\* header maps that carry the session value beside another non-empty
\* OCP-Context-ID and other agent-type and goal headers, or none
Beside(session) ==
    {<<Item(OCP_CONTEXT_ID, Lit(id))>> \o extras \o <<Item(OCP_SESSION, session)>> :
        id \in {Id1, <<"x">>},
        extras \in {<<>>, <<Item(OCP_AGENT_TYPE, Lit("other")),
                            Item(OCP_AGENT_GOAL, Lit("elsewhere"))>>}}

\* the header map has a non-empty OCP-Context-ID and a non-empty OCP-Session
CarriesBoth(headers) ==
    /\ ~EmptyHeader(NormalizeHeaders(headers), Lower(OCP_CONTEXT_ID))
    /\ ~EmptyHeader(NormalizeHeaders(headers), Lower(OCP_SESSION))

(***************************************************************************)
(* C30: what decode_context returns is determined by the OCP-Session value *)
(* alone.  Decoding any header map with the same session value beside any  *)
(* non-empty OCP-Context-ID and any other headers, at any time, returns    *)
(* the same result, and a context returned has the context_id of the       *)
(* session payload.                                                        *)
(***************************************************************************)
C30_SessionValueAloneDecides ==
    (result.op = "decode" /\ CarriesBoth(wire)) =>
        LET session == DictGet(NormalizeHeaders(wire), Lower(OCP_SESSION))
        IN /\ \A other \in Beside(session), fresh \in {Id1, Id2}, clock \in 0..MaxClock :
                decode_context(other, fresh, clock) = result.out
           /\ result.out.kind = "ctx" =>
                /\ "context_id" \in DOMAIN DecodeSession(session).val.d
                /\ result.out.ctx.context_id = DecodeSession(session).val.d.context_id
(***************************************************************************)
(* Properties of a context over its life.                                  *)
(***************************************************************************)
\* C21: in every state of a context (after construction, after any
\* sequence of its mutators and of the agent's calls) and for every context
\* that from_dict makes for decode_context, last_updated is not earlier
\* than created_at, the clock never going backwards.
C21_UpdatedNotBeforeCreated ==
    /\ ctx.last_updated.t >= ctx.created_at.t
    /\ (result.op = "update_from_headers" /\ result.decoded.kind = "ctx") =>
          result.decoded.ctx.last_updated.t >= result.decoded.ctx.created_at.t

\* C23: history only grows: across every operation on a context (its
\* mutators, update_from_headers, the agent's register_api and call_tool)
\* the history before is a prefix of the history after.
C23_HistoryOnlyGrows ==
    [][/\ Len(ctx.history) <= Len(ctx'.history)
       /\ SubSeq(ctx'.history, 1, Len(ctx.history)) = ctx.history]_vars

\* the entry of a register_api, then two entries that update_from_headers
\* merged in behind it
C23_Witness ==
    /\ result.op = "update_from_headers"
    /\ result.out = Ok(TRUE)
    /\ Len(result.before.history) = 1
    /\ "api_name" \in DOMAIN result.before.history[1].metadata
    /\ Len(ctx.history) = 3
    /\ ctx.history[1] = result.before.history[1]
    /\ "interaction_id" \in DOMAIN ctx.history[3]
    /\ ctx.history[3].interaction_id = "i2"

\* C25: when update_from_headers receives headers that decode to a context,
\* it returns true and merges the histories without duplicates: every entry
\* of the decoded history that is not in the local history is appended to
\* it exactly once, and the entries that are in it are not appended again.
C25_MergeAppendsNewEntriesOnce ==
    (result.op = "update_from_headers" /\ result.decoded.kind = "ctx") =>
        LET local == result.before.history
            other == result.decoded.ctx.history
            appended == SubSeq(ctx.history, Len(local) + 1, Len(ctx.history))
            Times(entry) ==
                Cardinality({i \in DOMAIN appended : appended[i] = entry})
        IN /\ result.out = Ok(TRUE)
           /\ Len(ctx.history) >= Len(local)
           /\ SubSeq(ctx.history, 1, Len(local)) = local
           /\ \A i \in DOMAIN appended :
                 \E j \in DOMAIN other : other[j] = appended[i]
           /\ \A j \in DOMAIN other :
                 Times(other[j]) =
                     IF \E i \in DOMAIN local : local[i] = other[j]
                     THEN 0 ELSE 1

(***************************************************************************)
(* C22: clone() returns a context whose context_id differs from the        *)
(* original's and whose other fields equal the original's at the time of   *)
(* the call; a later mutating method called on the clone leaves every      *)
(* field of the original as it was, and one called on the original leaves  *)
(* every field of the clone as it was.                                     *)
(***************************************************************************)
C22_CloneSharesNothing ==
    [][/\ forked'.last = "clone()" =>
            LET copy == Value(forked'.objects, forked'.clone)
            IN /\ copy.context_id # forked'.at_clone.context_id
               /\ IsContextId(copy.context_id)
               /\ [copy EXCEPT !.context_id = forked'.at_clone.context_id]
                    = forked'.at_clone
               /\ Value(forked'.objects, forked'.original) = forked'.at_clone
       /\ forked'.last = "clone" =>
            Value(forked'.objects, forked'.original)
              = Value(forked.objects, forked.original)
       /\ (forked'.last = "original" /\ forked.clone # NoCtx) =>
            Value(forked'.objects, forked'.clone)
              = Value(forked.objects, forked.clone)]_vars

\* the clone took an interaction and a change, the original an API, after the call
C22_Witness ==
    /\ forked.op = "fork"
    /\ forked.clone # NoCtx
    /\ LET copy == Value(forked.objects, forked.clone)
           first == Value(forked.objects, forked.original)
       IN /\ Len(copy.history) = Len(forked.at_clone.history) + 1
          /\ first.history = forked.at_clone.history
          /\ DOMAIN first.api_specs # DOMAIN forked.at_clone.api_specs
          /\ copy.api_specs = forked.at_clone.api_specs

(***************************************************************************)
(* C28: whatever header map the caller brings, stale OCP headers under     *)
(* the same or differently-cased names included, decoding the map merged   *)
(* with the encoded context returns a context equal to the one sent.       *)
(***************************************************************************)
C28_StaleHeadersNeverHideTheContext ==
    result.op = "transmit" =>
        /\ result.out.kind = "ctx"
        /\ result.out.ctx = result.sent

(***************************************************************************)
(* Properties of the agent with a storage.                                 *)
(***************************************************************************)
\* the directory holds for the name a cache entry with every field
\* get_cached_api reads, written at most MaxAgeDays days before today
FreshEntry(store, name, today) ==
    /\ DictHas(store.apis, name)
    /\ LET file == DictGet(store.apis, name)
       IN /\ file.kind = "json"
          /\ file.v.jt = "dict"
          /\ {"title", "version", "base_url", "raw_spec", "cached_at"}
                \subseteq DOMAIN file.v.d
          /\ file.v.d.cached_at.jt = "str"
          /\ file.v.d.cached_at.iso
          /\ file.v.d.cached_at.aware
          /\ LET days == today.day - file.v.d.cached_at.stamp.day
             IN \/ days < MaxAgeDays
                \/ days = MaxAgeDays /\ today.t <= file.v.d.cached_at.stamp.t

(***************************************************************************)
(* C26: register_api asks memory, then the cache file, then the spec URL   *)
(* or the registry.  A name in known_apis is returned from memory with     *)
(* known_apis, the context (api_specs and history with it) and the files   *)
(* as they were, whatever spec_url and base_url are passed; otherwise an   *)
(* entry cached at most 7 days ago is returned with no fetch; the spec URL *)
(* or the registry is asked only when neither answered, and the            *)
(* registration that follows appends exactly one api_registered entry.     *)
(***************************************************************************)
C26_MemoryThenCacheThenFetch ==
    (invoked.op = "register_api" /\ "from" \in DOMAIN invoked) =>
      LET name == invoked.args.name
          known == DictHas(invoked.apis_before, name)
          cached == FreshEntry(invoked.files_before, name, Today(invoked.at))
          before == invoked.context_before.history
          after == invoked.context_after.history
      IN /\ known =>
              /\ invoked.from = "memory"
              /\ invoked.out = Ok(DictGet(invoked.apis_before, name))
              /\ ~invoked.fetched
              /\ invoked.apis_after = invoked.apis_before
              /\ invoked.context_after = invoked.context_before
              /\ invoked.files_after = invoked.files_before
         /\ (~known /\ cached) =>
              /\ invoked.from = "cache"
              /\ invoked.out.ok
              /\ invoked.out.val.title
                    = DictGet(invoked.files_before.apis, name).v.d.title
              /\ invoked.out.val.tools
                    = DictGet(invoked.files_before.apis, name).v.d.tools
              /\ ~invoked.fetched
              /\ DictGet(invoked.apis_after, name) = invoked.out.val
         /\ invoked.from \in {"openapi", "registry"} =>
              /\ ~known
              /\ ~cached
              /\ invoked.out.ok =>
                    /\ Len(after) = Len(before) + 1
                    /\ SubSeq(after, 1, Len(before)) = before
                    /\ after[Len(after)].action = <<"a", "p", "i", "_", "r", "e", "g", "i", "s", "t", "e", "r", "e", "d">>
                    /\ after[Len(after)].metadata.api_name = name

\* an agent started over a directory whose entry for the name is exactly
\* seven days old gets it from the cache, having registered another API
\* through the registry before
C26_Witness ==
    /\ invoked.op = "register_api"
    /\ "from" \in DOMAIN invoked
    /\ invoked.from = "cache"
    /\ invoked.out.ok
    /\ invoked.at = 2
    /\ DictGet(invoked.files_before.apis, invoked.args.name).v.d.cached_at.stamp
          = Stamp(0 - MaxAgeDays, 2)
    /\ invoked.args.spec_url # NoneText
    /\ Len(invoked.apis_before) = 1

\* the session file is what save_session writes for the context
SavedAs(file, session_id, context) ==
    /\ file.kind = "json"
    /\ file.v.jt = "dict"
    /\ DOMAIN file.v.d = FieldNames \cup {"session_id"}
    /\ file.v.d = [session_id |-> session_id] @@ to_dict(context).d

(***************************************************************************)
(* C29: no read or write of the storage raises.  save_session returns      *)
(* False when the directory cannot be written; get_cached_api returns None *)
(* unless the file is a well-formed entry at most seven days old;          *)
(* load_session returns None unless the file is a saved context, and then  *)
(* that context.                                                           *)
(***************************************************************************)
C29_StorageNeverRaises ==
    /\ result.op = "save_session" =>
         /\ result.out.ok
         /\ result.out.val = result.files.writable
    /\ result.op = "get_cached_api" =>
         /\ result.out.ok
         /\ ~FreshEntry(result.files, result.name, Today(result.at)) =>
               result.out.val = NoSpec
    /\ result.op = "load_session" =>
         /\ result.out.ok
         /\ result.out.val # NoCtx =>
               /\ DictHas(result.files.sessions, result.session_id)
               /\ SavedAs(DictGet(result.files.sessions, result.session_id),
                          result.session_id, result.out.val)

(***************************************************************************)
(* C27: when the concurrent discover_api calls for one URL have all        *)
(* returned, the cache holds exactly one entry for the URL, every caller   *)
(* has received an APISpec, and these have identical content.              *)
(***************************************************************************)
C27_ConcurrentCallersGetTheSameSpec ==
    (\A i \in DOMAIN threads : threads[i].pc = "done") =>
        /\ Cardinality({k \in DOMAIN cached_specs :
                           cached_specs[k].k = threads[1].spec_url}) = 1
        /\ \A i \in DOMAIN threads : threads[i].out.ok
        /\ \A i, j \in DOMAIN threads : threads[i].out.val = threads[j].out.val
(***************************************************************************)
(* Properties of discovery.                                                *)
(***************************************************************************)
\* the failures of a fetch the claim lists: the request raises, the status
\* is not 2xx, the body is neither JSON nor YAML, or what it parses to has
\* no format marker
FailedAnswer(a) ==
    \/ a.kind = "raises"
    \/ a.status < 200
    \/ a.status > 299
    \/ a.body.fmt = "garbage"
    \/ a.body.v.jt # "dict"
    \/ ("openapi" \notin DOMAIN a.body.v.d /\ "swagger" \notin DOMAIN a.body.v.d)

\* C4: a discover_api call whose fetch fails (the request raises, the status
\* is not 2xx, the body is neither JSON nor YAML, the document has no format
\* marker) raises an error that names the URL and the cause, returns no
\* APISpec and leaves the cache without an entry for the URL.
C4_FailedDiscoveryRaises ==
    (call.op = "discover" /\ call.fetched /\ FailedAnswer(call.answer)) =>
        /\ ~call.out.ok
        /\ "url" \in DOMAIN call.out.exc
        /\ call.out.exc.url = call.spec_url
        /\ "cause" \in DOMAIN call.out.exc
        /\ ~DictHas(call.after, call.spec_url)

\* C5: once discover_api has returned an APISpec for a URL, every later
\* discover_api of that URL, until clear_cache, returns that same APISpec
\* without requesting the URL and without changing the cache, whatever the
\* URL answers by then and whatever other URLs were discovered meanwhile.
C5_CachedDiscoveryIsStable ==
    (call.op = "discover" /\ call.earlier # NoVal) =>
        /\ call.out = Ok(call.earlier)
        /\ ~call.fetched
        /\ call.after = call.before

\* a second discovery of a URL whose document has changed since, another
\* URL having been discovered too
C5_Witness ==
    /\ call.op = "discover"
    /\ call.earlier # NoVal
    /\ Len(call.before) = 2
    /\ call.answer.kind = "response"
    /\ call.answer.status = 200
    /\ call.answer.body.fmt = "json"
    /\ call.answer.body.v.jt = "dict"
    /\ call.answer.body.v.d # call.earlier.raw_spec
    /\ call.out.ok

\* the url of the first entry of a document's servers list, else ""
FirstServerUrl(doc) ==
    IF "servers" \in DOMAIN doc /\ doc.servers # <<>>
    THEN (IF "url" \in DOMAIN doc.servers[1] THEN doc.servers[1].url ELSE <<>>)
    ELSE <<>>

\* C6, as claimed: every successful discover_api call returns an APISpec
\* whose base_url is the override when one is supplied, else the url of the
\* first server of the document, else the empty string.
C6_OverrideAlwaysWins ==
    (call.op = "discover" /\ call.out.ok) =>
        call.out.val.base_url =
            IF call.base_url # NoneText THEN call.base_url
            ELSE FirstServerUrl(call.out.val.raw_spec)

\* C6, amended: a successful discover_api call that fetches the document
\* returns an APISpec whose base_url is the override when a non-empty one is
\* supplied, else the url of the first server of the document (the empty
\* string when that entry has no url), else the empty string; a call
\* answered from the cache returns the base_url resolved when the URL was
\* first discovered, whatever override it is given.
C6_BaseUrlResolvedOnFetch ==
    (call.op = "discover" /\ call.out.ok) =>
        call.out.val.base_url =
            IF ~call.fetched THEN call.earlier.base_url
            ELSE IF call.base_url # NoneText /\ call.base_url # <<>>
            THEN call.base_url
            ELSE FirstServerUrl(call.out.val.raw_spec)

\* a fetched document with servers, discovered with an override
C6_Witness ==
    /\ call.op = "discover"
    /\ call.fetched
    /\ call.out.ok
    /\ call.base_url # NoneText
    /\ call.base_url # <<>>
    /\ FirstServerUrl(call.out.val.raw_spec) # <<>>
    /\ call.out.val.base_url = call.base_url


\* C14: for a query that is not empty, search_tools returns exactly the
\* tools of the APISpec whose name or description has the query in it,
\* letter case ignored, in the order they have in the APISpec, and the
\* APISpec is left as it was.
C14_SearchFindsMatchesInOrder ==
    (call.op = "search_tools" /\ call.query # <<>>) =>
        LET tools == call.api_spec.tools
            Holds(s) ==
                \E a \in 1..Len(s), b \in 1..Len(s) :
                    Lower(SubSeq(s, a, b)) = Lower(call.query)
            Matching(tool) == Holds(tool.name) \/ Holds(tool.description)
        IN /\ call.out = SelectSeq(tools, Matching)
           /\ \E i \in DOMAIN cached_specs :
                  cached_specs[i].v = call.api_spec

\* a query in capitals found in the lower-case names of the first and the
\* third of three tools
C14_Witness ==
    /\ call.op = "search_tools"
    /\ call.query = <<"G", "E", "T">>
    /\ Len(call.api_spec.tools) = 3
    /\ call.out = <<call.api_spec.tools[1], call.api_spec.tools[3]>>

\* C15: search_tools returns an empty list, and does not raise, when the
\* query is the empty string and when no tool has the query in its name or
\* description.
C15_EmptyQueryOrNoMatchFindsNothing ==
    LET Lacks(s) ==
            \A a \in 1..Len(s), b \in 1..Len(s) :
                Lower(SubSeq(s, a, b)) # Lower(call.query)
    IN (/\ call.op = "search_tools"
        /\ \/ call.query = <<>>
           \/ \A i \in DOMAIN call.api_spec.tools :
                 /\ Lacks(call.api_spec.tools[i].name)
                 /\ Lacks(call.api_spec.tools[i].description))
       => call.out = <<>>

\* C16: for a POST, PUT or PATCH operation whose declared parameters and
\* whose application/json object request body share a name, the discovered
\* tool has exactly one parameter of that name, and it is the body one: its
\* location is body and it is required exactly when the name is in the
\* required list of the body schema.
C16_BodyPropertyReplacesDeclaredParameter ==
    (call.op = "discover" /\ call.out.ok /\ call.fetched) =>
        LET paths == Get(call.answer.body.v.d, "paths", <<>>)
            tools == call.out.val.tools
            Declares(operation, n) ==
                /\ "parameters" \in DOMAIN operation
                /\ \E i \in DOMAIN operation.parameters :
                      /\ "name" \in DOMAIN operation.parameters[i]
                      /\ operation.parameters[i].name = n
            BodySchema(operation) ==
                operation.requestBody.content["application/json"].schema
            HasObjectBody(operation) ==
                /\ "requestBody" \in DOMAIN operation
                /\ "content" \in DOMAIN operation.requestBody
                /\ "application/json" \in DOMAIN operation.requestBody.content
                /\ BodySchema(operation).type = "object"
            Required(schema, n) ==
                /\ "required" \in DOMAIN schema
                /\ \E i \in DOMAIN schema.required : schema.required[i] = n
            OneBodyParameter(tool, schema, n) ==
                /\ Cardinality({i \in DOMAIN tool.parameters :
                                    tool.parameters[i].k = n}) = 1
                /\ \A i \in DOMAIN tool.parameters :
                      tool.parameters[i].k = n =>
                          /\ tool.parameters[i].v.location = "body"
                          /\ tool.parameters[i].v.required = Required(schema, n)
        IN \A p \in DOMAIN paths : \A o \in DOMAIN paths[p].v :
             \A t \in DOMAIN tools :
               (/\ tools[t].path = paths[p].k
                /\ tools[t].method = Upper(paths[p].v[o].k)
                /\ tools[t].method \in {<<"P", "O", "S", "T">>, <<"P", "U", "T">>,
                                        <<"P", "A", "T", "C", "H">>}
                /\ HasObjectBody(paths[p].v[o].v)) =>
                   \A i \in DOMAIN BodySchema(paths[p].v[o].v).properties :
                     Declares(paths[p].v[o].v,
                              BodySchema(paths[p].v[o].v).properties[i].k) =>
                        OneBodyParameter(tools[t], BodySchema(paths[p].v[o].v),
                            BodySchema(paths[p].v[o].v).properties[i].k)

\* a PUT operation that declares a required query parameter "name" and whose
\* body declares an optional property "name", and a PATCH operation with an
\* optional header parameter "tag" whose body requires "tag"
C16_Witness ==
    /\ call.op = "discover"
    /\ call.out.ok
    /\ call.fetched
    /\ call.answer.body.v.d = ItemsDoc
    /\ Len(call.out.val.tools) = 3
    /\ call.out.val.tools[1].method = <<"P", "U", "T">>
    /\ Len(call.out.val.tools[1].parameters) = 5
    /\ call.out.val.tools[1].parameters[1].k = <<"n", "a", "m", "e">>
    /\ call.out.val.tools[1].parameters[1].v.location = "body"
    /\ ~call.out.val.tools[1].parameters[1].v.required
    /\ call.out.val.tools[2].parameters[1].k = <<"t", "a", "g">>
    /\ call.out.val.tools[2].parameters[1].v.location = "body"
    /\ call.out.val.tools[2].parameters[1].v.required

\* C17: the name of each discovered tool is the operationId of its
\* operation when it has one (one that is not the empty string), else the
\* method in lower case followed by the path with every "/" replaced by "_"
\* and every brace removed; documents that are equal yield the same names.
C17_ToolNameFromIdOrMethodAndPath ==
    (call.op = "discover" /\ call.out.ok /\ call.fetched) =>
        LET paths == Get(call.answer.body.v.d, "paths", <<>>)
            tools == call.out.val.tools
            HasId(operation) ==
                /\ "operationId" \in DOMAIN operation
                /\ operation.operationId # <<>>
            Unbraced(path) == SelectSeq(path, LAMBDA x : x \notin {"{", "}"})
            Generated(name, method, path) ==
                /\ Len(name) = Len(method) + Len(Unbraced(path))
                /\ \A i \in DOMAIN method : name[i] = Lower(method)[i]
                /\ \A i \in DOMAIN Unbraced(path) :
                      name[Len(method) + i] =
                          IF Unbraced(path)[i] = "/" THEN "_" ELSE Unbraced(path)[i]
            SameNames(other) ==
                /\ Len(other) = Len(tools)
                /\ \A i \in DOMAIN other : other[i].name = tools[i].name
        IN /\ \A p \in DOMAIN paths : \A o \in DOMAIN paths[p].v :
                \A t \in DOMAIN tools :
                  (/\ tools[t].path = paths[p].k
                   /\ tools[t].method = Upper(paths[p].v[o].k)) =>
                      IF HasId(paths[p].v[o].v)
                      THEN tools[t].name = paths[p].v[o].v.operationId
                      ELSE Generated(tools[t].name, tools[t].method, tools[t].path)
           /\ \A i \in DOMAIN cached_specs :
                cached_specs[i].v.raw_spec = call.answer.body.v.d =>
                    SameNames(cached_specs[i].v.tools)

\* the sample document discovered at one URL after it was discovered at the
\* other: GET /users/{id} gives get_users_id and POST /users gives post_users
C17_Witness ==
    /\ call.op = "discover"
    /\ call.out.ok
    /\ call.fetched
    /\ Len(call.before) = 1
    /\ call.before[1].v.raw_spec = call.answer.body.v.d
    /\ Len(call.out.val.tools) = 3
    /\ call.out.val.tools[2].method = <<"P", "O", "S", "T">>
    /\ call.out.val.tools[2].path = <<"/", "u", "s", "e", "r", "s">>
    /\ call.out.val.tools[2].name = <<"p", "o", "s", "t", "_", "u", "s", "e", "r", "s">>
    /\ call.out.val.tools[3].method = <<"G", "E", "T">>
    /\ call.out.val.tools[3].path = <<"/", "u", "s", "e", "r", "s", "/", "{", "i", "d", "}">>
    /\ call.out.val.tools[3].name =
           <<"g", "e", "t", "_", "u", "s", "e", "r", "s", "_", "i", "d">>

\* C18, as claimed: the response_schema of a tool is the application/json
\* schema of the first response of its operation, in document order, whose
\* status code begins with 2, later 2xx responses not being consulted; it
\* is empty when the operation declares no 2xx response.
C18_FirstSuccessResponseOnly ==
    (call.op = "discover" /\ call.out.ok /\ call.fetched) =>
        LET paths == Get(call.answer.body.v.d, "paths", <<>>)
            tools == call.out.val.tools
            Success(responses) ==
                {i \in DOMAIN responses : responses[i].k[1] = "2"}
            First(responses) ==
                CHOOSE i \in Success(responses) :
                    \A j \in Success(responses) : i <= j
            JsonSchema(response) ==
                IF /\ "content" \in DOMAIN response
                   /\ "application/json" \in DOMAIN response.content
                   /\ "schema" \in DOMAIN response.content["application/json"]
                THEN response.content["application/json"].schema
                ELSE EmptyDict
            Expected(responses) ==
                IF Success(responses) = {} THEN EmptyDict
                ELSE JsonSchema(responses[First(responses)].v)
        IN \A p \in DOMAIN paths : \A o \in DOMAIN paths[p].v :
             \A t \in DOMAIN tools :
               (/\ tools[t].path = paths[p].k
                /\ tools[t].method = Upper(paths[p].v[o].k)) =>
                   tools[t].response_schema =
                       Expected(Get(paths[p].v[o].v, "responses", <<>>))

\* C18, amended: the response_schema of a tool is the application/json
\* schema of the first response of its operation, in document order, whose
\* status code begins with 2 and which has an application/json schema (2xx
\* responses without one are passed over, those after it are not
\* consulted); it is empty when the operation declares no such response.
C18_FirstSuccessResponseWithJsonSchema ==
    (call.op = "discover" /\ call.out.ok /\ call.fetched) =>
        LET paths == Get(call.answer.body.v.d, "paths", <<>>)
            tools == call.out.val.tools
            HasJsonSchema(response) ==
                /\ "content" \in DOMAIN response
                /\ "application/json" \in DOMAIN response.content
                /\ "schema" \in DOMAIN response.content["application/json"]
            Success(responses) ==
                {i \in DOMAIN responses :
                    /\ responses[i].k[1] = "2"
                    /\ HasJsonSchema(responses[i].v)}
            First(responses) ==
                CHOOSE i \in Success(responses) :
                    \A j \in Success(responses) : i <= j
            Expected(responses) ==
                IF Success(responses) = {} THEN EmptyDict
                ELSE responses[First(responses)].v.content["application/json"].schema
        IN \A p \in DOMAIN paths : \A o \in DOMAIN paths[p].v :
             \A t \in DOMAIN tools :
               (/\ tools[t].path = paths[p].k
                /\ tools[t].method = Upper(paths[p].v[o].k)) =>
                   tools[t].response_schema =
                       Expected(Get(paths[p].v[o].v, "responses", <<>>))

\* an operation whose responses are 404 with a schema, 204 without one, 200
\* and 201 with schemas: the tool carries the schema of 200; beside it an
\* operation whose only response is 500 and one with 200 before 202
C18_Witness ==
    /\ call.op = "discover"
    /\ call.out.ok
    /\ call.fetched
    /\ call.answer.body.v.d = ItemsDoc
    /\ Len(ItemsDoc.paths[1].v[1].v.responses) = 4
    /\ ItemsDoc.paths[1].v[1].v.responses[2].v = EmptyDict
    /\ call.out.val.tools[1].response_schema = [type |-> "object"]
    /\ call.out.val.tools[2].response_schema = EmptyDict
    /\ call.out.val.tools[3].response_schema = [type |-> "object"]

\* C19: every parameter of every tool that discovery produces has a
\* location that is one of path, query, header and body, whatever the
\* document declares (cookie parameters and parameters without "in"
\* included).
C19_LocationIsPathQueryHeaderOrBody ==
    (call.op = "discover" /\ call.out.ok) =>
        \A t \in DOMAIN call.out.val.tools :
            \A i \in DOMAIN call.out.val.tools[t].parameters :
                call.out.val.tools[t].parameters[i].v.location
                    \in {"path", "query", "header", "body"}
(***************************************************************************)
(* Properties of the agent.                                                *)
(***************************************************************************)
\* the call names a tool the agent has and gives no value for one of that
\* tool's required parameters
OmitsRequired(c) ==
    LET tool == get_tool(c.apis_before, c.args.tool_name, c.args.api_name)
    IN /\ tool.ok
       /\ tool.val # NoTool
       /\ \E i \in DOMAIN tool.val.parameters :
            /\ tool.val.parameters[i].v.required
            /\ ~DictHas(c.args.parameters, tool.val.parameters[i].k)

\* C7: a call_tool whose parameters omit a required parameter of the tool
\* raises the parameter validation error, naming that parameter, with no
\* request sent and the history of the context as it was.
C7_MissingRequiredRejected ==
    (invoked.op = "call_tool" /\ OmitsRequired(invoked)) =>
        /\ ~invoked.out.ok
        /\ invoked.out.exc.type = "ValueError"
        /\ invoked.out.exc.text = "Parameter validation failed"
        /\ \E i \in DOMAIN invoked.out.exc.errors :
              invoked.out.exc.errors[i].text = "Missing required parameter"
        /\ sent = invoked.sent_before
        /\ ctx.history = invoked.history_before

\* the POST tool of a registered API called without its required name, after
\* an earlier call went out
C7_Witness ==
    /\ invoked.op = "call_tool"
    /\ OmitsRequired(invoked)
    /\ invoked.args.tool_name = <<"p", "o", "s", "t", "_", "u", "s", "e", "r", "s">>
    /\ Len(invoked.history_before) > 1
    /\ Len(invoked.sent_before) > 0
    /\ ~invoked.out.ok


\* the call names a tool of a registered API and its parameters are valid
PassesValidation(c) ==
    LET tool == get_tool(c.apis_before, c.args.tool_name, c.args.api_name)
    IN /\ tool.ok
       /\ tool.val # NoTool
       /\ \E i \in DOMAIN c.apis_before : InList(tool.val, c.apis_before[i].v.tools)
       /\ _validate_parameters(tool.val, c.args.parameters) = <<>>

IsToolCall(entry) == StartsWith(entry.action, <<"t", "o", "o", "l", "_", "c", "a", "l", "l", ":">>)
IsClosing(entry) ==
    StartsWith(entry.action, <<"t", "o", "o", "l", "_", "r", "e", "s", "p", "o", "n", "s", "e", ":">>) \/ StartsWith(entry.action, <<"t", "o", "o", "l", "_", "e", "r", "r", "o", "r", ":">>)

\* the entries after the i-th up to the next tool_call entry or the end
UntilNextToolCall(history, i) ==
    {k \in (i + 1)..Len(history) :
        \A j \in (i + 1)..k : ~IsToolCall(history[j])}

(***************************************************************************)
(* C24: a call_tool that passes validation appends the tool_call:<name>    *)
(* entry before the request is dispatched (the request carries the context *)
(* whose history ends with it) and then exactly one closing entry:         *)
(* tool_response:<name> when the request returned, tool_error:<name> with  *)
(* the request's exception raised when it raised; and in every history     *)
(* each tool_call entry has exactly one closing entry, its own, before the *)
(* next tool_call entry.                                                   *)
(***************************************************************************)
C24_ToolCallBracketed ==
    /\ (invoked.op = "call_tool" /\ PassesValidation(invoked)) =>
         LET n == Len(invoked.history_before)
             name == invoked.args.tool_name
             last == ctx.history[Len(ctx.history)]
         IN /\ Len(ctx.history) >= n + 2
            /\ SubSeq(ctx.history, 1, n) = invoked.history_before
            /\ ctx.history[n + 1].action = <<"t", "o", "o", "l", "_", "c", "a", "l", "l", ":">> \o name
            /\ Len(sent) = Len(invoked.sent_before) + 1
            /\ sent[Len(sent)].kwargs.headers.ocp_headers_of.history
                 = SubSeq(ctx.history, 1, n + 1)
            /\ {k \in (n + 2)..Len(ctx.history) : IsClosing(ctx.history[k])}
                 = {Len(ctx.history)}
            /\ IF invoked.out.ok
               THEN last.action = <<"t", "o", "o", "l", "_", "r", "e", "s", "p", "o", "n", "s", "e", ":">> \o name
               ELSE /\ last.action = <<"t", "o", "o", "l", "_", "e", "r", "r", "o", "r", ":">> \o name
                    /\ invoked.out.exc.kind = "raises"
                    /\ last.metadata.error_type = invoked.out.exc.type
    /\ \A i \in DOMAIN ctx.history :
         IsToolCall(ctx.history[i]) =>
           \E j \in UntilNextToolCall(ctx.history, i) :
              /\ {k \in UntilNextToolCall(ctx.history, i) : IsClosing(ctx.history[k])} = {j}
              /\ ctx.history[j].action \in
                   {<<"t", "o", "o", "l", "_", "r", "e", "s", "p", "o", "n", "s", "e", ":">> \o ctx.history[i].metadata.tool_name,
                    <<"t", "o", "o", "l", "_", "e", "r", "r", "o", "r", ":">> \o ctx.history[i].metadata.tool_name}

\* a call that returned after one that raised: two tool_call entries, the
\* first closed by tool_error and the second by tool_response
C24_Witness ==
    /\ invoked.op = "call_tool"
    /\ invoked.out.ok
    /\ \E i, j \in DOMAIN ctx.history :
         /\ i < j
         /\ IsToolCall(ctx.history[i])
         /\ StartsWith(ctx.history[i + 1].action, <<"t", "o", "o", "l", "_", "e", "r", "r", "o", "r", ":">>)
         /\ IsToolCall(ctx.history[j])
         /\ StartsWith(ctx.history[j + 1].action, <<"a", "p", "i", "_", "c", "a", "l", "l", "_">>)
         /\ StartsWith(ctx.history[j + 2].action, <<"t", "o", "o", "l", "_", "r", "e", "s", "p", "o", "n", "s", "e", ":">>)
====
